---- MODULE Spec2Model ----
(***************************************************************************)
(* A model of the ALAC decoding engine of saprobe (package alac): the      *)
(* magic-cookie parser, the bit cursor, the adaptive Golomb-Rice entropy   *)
(* decoder, the dynamic predictor, the matrix unmix / PCM packing and the  *)
(* element dispatch loop of Decoder.DecodePacket.                          *)
(*                                                                         *)
(* 32-bit words (Go int32 and uint32) are kept as their two's-complement   *)
(* bit pattern, read as a signed value in -2^31 .. 2^31-1; the operators   *)
(* below compute on 16-bit halves so that no intermediate value leaves     *)
(* that range.  Counts, indices and bit positions are naturals.            *)
(***************************************************************************)
EXTENDS Integers, Sequences, FiniteSets, TLC

\* ------------------------------------------------------------------------
\* Go integer arithmetic
\* ------------------------------------------------------------------------

Pow2(n) == 2 ^ n

MinOf(a, b) == IF a < b THEN a ELSE b

MaxOf(a, b) == IF a > b THEN a ELSE b

\* low and high 16-bit halves of a 32-bit pattern
Lo16(a) == a % 65536

Hi16(a) == a \div 65536

\* the high half as an unsigned 16-bit value
Hi16U(a) == (a \div 65536) % 65536

\* int16(x): truncation to a signed 16-bit value
Int16(x) == LET m == x % 65536 IN IF m >= 32768 THEN m - 65536 ELSE m

\* int8(x): truncation to a signed 8-bit value
Int8(x) == LET m == x % 256 IN IF m >= 128 THEN m - 256 ELSE m

\* the 32-bit pattern with high half hi (any integer, wrapped) and low half lo
Mk32(hi, lo) == Int16(hi) * 65536 + lo

Add32(a, b) ==
  LET lo == Lo16(a) + Lo16(b)
  IN  Mk32(Hi16(a) + Hi16(b) + (lo \div 65536), lo % 65536)

Sub32(a, b) ==
  LET lo == Lo16(a) - Lo16(b)
  IN  Mk32(Hi16(a) - Hi16(b) + (lo \div 65536), lo % 65536)

Neg32(a) == Sub32(0, a)

\* ^a : bitwise complement
Not32(a) == (0 - 1) - a

\* low 16 bits of the product of two unsigned 16-bit values
MulLo16(x, y) == (x * (y % 256) + ((x * (y \div 256)) % 256) * 256) % 65536

\* a * b, wrapped to 32 bits
Mul32(a, b) ==
  LET sum(al, bl, p0, p1) ==
        Mk32((p1 \div 256) + (((p1 % 256) * 256 + p0) \div 65536)
               + MulLo16(Hi16U(a), bl) + MulLo16(al, Hi16U(b)),
             ((p1 % 256) * 256 + p0) % 65536)
      prod(al, bl) == sum(al, bl, al * (bl % 256), al * (bl \div 256))
  IN  IF a >= -32768 /\ a <= 32767 /\ b >= -65535 /\ b <= 65535
        THEN a * b
        ELSE prod(Lo16(a), Lo16(b))

\* a << n : Go gives 0 for a shift count of 32 or more; a count written
\* n < 0 stands for an unsigned count that wrapped around, which is large
Shl32(a, n) ==
  IF n = 0 THEN a
  ELSE IF n < 0 \/ n >= 32 THEN 0
  ELSE IF n >= 16 THEN Mk32((Lo16(a) * Pow2(n - 16)) % 65536, 0)
  ELSE LET lo == Lo16(a) * Pow2(n)
       IN  Mk32(Hi16U(a) * Pow2(n) + (lo \div 65536), lo % 65536)

\* a >> n on int32 (arithmetic shift)
Sar32(a, n) ==
  IF n < 0 \/ n >= 31 THEN (IF a < 0 THEN 0 - 1 ELSE 0)
  ELSE a \div Pow2(n)

\* a >> n on uint32 (logical shift of the pattern)
Shr32(a, n) ==
  IF n = 0 THEN a
  ELSE IF n < 0 \/ n >= 32 THEN 0
  ELSE IF a >= 0 THEN (IF n >= 31 THEN 0 ELSE a \div Pow2(n))
  ELSE IF n = 1 THEN ((a \div 2) + 1073741824) + 1073741824
  ELSE IF n = 31 THEN 1
  ELSE (a \div Pow2(n)) + Pow2(32 - n)

\* a < b on uint32 patterns
ULt32(a, b) ==
  IF (a >= 0) = (b >= 0) THEN a < b ELSE a >= 0

\* int(x) of a uint32 pattern; counts of 2^31 and more are outside the
\* range of integers the model computes with, so the sum below overflows loudly
U32ToInt(a) == IF a >= 0 THEN a ELSE (a + 2147483647) + 2147483647 + 2

\* a | b and a & b, bit by bit, on non-negative values
RECURSIVE OrNat(_, _)
OrNat(a, b) ==
  IF a = 0 THEN b
  ELSE IF b = 0 THEN a
  ELSE 2 * OrNat(a \div 2, b \div 2) + (IF a % 2 = 1 \/ b % 2 = 1 THEN 1 ELSE 0)

RECURSIVE AndNat(_, _)
AndNat(a, b) ==
  IF a = 0 \/ b = 0 THEN 0
  ELSE 2 * AndNat(a \div 2, b \div 2) + (IF a % 2 = 1 /\ b % 2 = 1 THEN 1 ELSE 0)

\* a & b on 32-bit patterns
And32(a, b) ==
  Mk32(AndNat(Hi16U(a), Hi16U(b)), AndNat(Lo16(a), Lo16(b)))

\* a | b on 32-bit patterns
Or32(a, b) ==
  Mk32(OrNat(Hi16U(a), Hi16U(b)), OrNat(Lo16(a), Lo16(b)))

\* byte(x): the low 8 bits
Byte(x) == x % 256

\* ------------------------------------------------------------------------
\* bitBuffer (src/alac/bitbuffer.go)
\* ------------------------------------------------------------------------

bitBufferPadding == 4

\* newBitBuffer: the packet (a sequence of bytes) followed by 4 zero bytes;
\* buf is indexed from 0 as in the source
newBitBuffer(data) ==
  [buf    |-> [i \in 0 .. (Len(data) + bitBufferPadding - 1) |->
                 IF i < Len(data) THEN data[i + 1] ELSE 0],
   pos    |-> 0,
   bitIdx |-> 0,
   size   |-> Len(data)]

\* len(b.buf)
BufLen(b) == b.size + bitBufferPadding

\* advance: skip numBits (a uint32) forward; bitIdx += numBits wraps at 32
\* bits.  Also the three closing lines of read, readSmall and readOne.
advance(b, numBits) ==
  LET bitIdx == Add32(b.bitIdx, numBits)
  IN  [b EXCEPT !.pos    = b.pos + Shr32(bitIdx, 3),
                !.bitIdx = bitIdx % 8]

\* read indexes buf[pos], buf[pos+1], buf[pos+2]: an index beyond the
\* padded buffer is a run-time panic
readInRange(b) == b.pos + 2 < BufLen(b)

\* read(numBits): the value returned and the cursor left behind; numBits
\* is a uint8, and 24 - numBits wraps to a large shift count above 24
read(b, numBits) ==
  IF ~readInRange(b) THEN [val |-> 0, b |-> b, panic |-> TRUE]
  ELSE
    LET returnBits == b.buf[b.pos] * 65536 + b.buf[b.pos + 1] * 256 + b.buf[b.pos + 2]
        shifted    == (returnBits * Pow2(b.bitIdx)) % 16777216
    IN  [val   |-> IF numBits > 24 THEN 0 ELSE shifted \div Pow2(24 - numBits),
         b     |-> advance(b, numBits),
         panic |-> FALSE]

\* readSmall indexes buf[pos], buf[pos+1]
readSmallInRange(b) == b.pos + 1 < BufLen(b)

\* readSmall(numBits)
readSmall(b, numBits) ==
  IF ~readSmallInRange(b) THEN [val |-> 0, b |-> b, panic |-> TRUE]
  ELSE
    LET returnBits == b.buf[b.pos] * 256 + b.buf[b.pos + 1]
        shifted    == (returnBits * Pow2(b.bitIdx)) % 65536
    IN  [val   |-> (shifted \div Pow2(16 - numBits)) % 256,
         b     |-> advance(b, numBits),
         panic |-> FALSE]

\* readOne indexes buf[pos]
readOneInRange(b) == b.pos < BufLen(b)

\* readOne()
readOne(b) ==
  IF ~readOneInRange(b) THEN [val |-> 0, b |-> b, panic |-> TRUE]
  ELSE [val   |-> (b.buf[b.pos] \div Pow2(7 - b.bitIdx)) % 2,
        b     |-> advance(b, 1),
        panic |-> FALSE]

\* Faulty variant of byteAlign: the cursor is moved without the test of
\* bitIdx.
byteAlignUntested(b) == advance(b, 8 - b.bitIdx)

\* byteAlign()
byteAlign(b) == IF b.bitIdx = 0 THEN b ELSE advance(b, 8 - b.bitIdx)

pastEnd(b) == b.pos >= b.size

\* the cursor's distance from the start of the buffer, in bits
bitPosition(b) == b.pos * 8 + b.bitIdx

\* Faulty variant of copy: the cursor returned stands at the start of the
\* buffer.
copyRewound(b) == [b EXCEPT !.pos = 0, !.bitIdx = 0]

\* copy returns the struct by value: same backing bytes, own position
copy(b) == b

\* ------------------------------------------------------------------------
\* Adaptive Golomb-Rice entropy decoder (ag_dec.c port)
\* ------------------------------------------------------------------------

qbShift == 9

quantBits == 512

mmulShift == 2

mdenShift == 6

moff == 16

bitoff == 24

maxPrefix16 == 9

maxPrefix32 == 9

maxDatatype16 == 16

nMaxMeanClamp == 65535

nMeanClampVal == 65535

maxZeroRun == 65535

setAGParams(meanBase, partBound, kBase, frameWin, sampleWin, maxrun) ==
  [mb     |-> meanBase,
   mb0    |-> meanBase,
   pb     |-> partBound,
   kb     |-> kBase,
   wb     |-> Sub32(Shl32(1, kBase), 1),
   qb     |-> Sub32(quantBits, partBound),
   fw     |-> frameWin,
   sw     |-> sampleWin,
   maxrun |-> maxrun]

\* number of significant bits of a non-negative value
RECURSIVE BitLen(_)
BitLen(m) == IF m = 0 THEN 0 ELSE 1 + BitLen(m \div 2)

\* bits.LeadingZeros32(uint32(m))
LeadingZeros32(m) == IF m < 0 THEN 0 ELSE 32 - BitLen(m)

lead(m) == IF m = 0 THEN 32 ELSE LeadingZeros32(m)

lg3a(x) == 31 - lead(Add32(x, 3))

\* the slice input = bitBuf.buf[bitBuf.pos:] is read at input[i]
inputInRange(b, i) == i >= 0 /\ b.pos + i < BufLen(b)

read32bitInRange(b, offset) == inputInRange(b, offset + 3)

read32bit(b, offset) ==
  Mk32(b.buf[b.pos + offset] * 256 + b.buf[b.pos + offset + 1],
       b.buf[b.pos + offset + 2] * 256 + b.buf[b.pos + offset + 3])

\* getStreamBits: result val, or panic when an index leaves the buffer
getStreamBits(b, bitOffset, numBits) ==
  LET byteOffset == Shr32(bitOffset, 3)
      bit7       == bitOffset % 8
      \* the field straddles load1 and the byte load2 that follows it
      twoLoads(load1, load2) ==
        [val   |-> Or32(Shr32(Shl32(load1, bit7), Sub32(32, numBits)),
                        Shr32(load2, Sub32(8, Sub32(Add32(numBits, bit7), 32)))),
         panic |-> FALSE]
      oneLoad(result) ==
        [val   |-> IF ULt32(numBits, 32)
                     THEN And32(result, Sub32(Shl32(1, numBits), 1))
                     ELSE result,
         panic |-> FALSE]
  IN  IF ~read32bitInRange(b, byteOffset) THEN [val |-> 0, panic |-> TRUE]
      ELSE IF ULt32(32, Add32(numBits, bit7))
        THEN IF ~inputInRange(b, byteOffset + 4) THEN [val |-> 0, panic |-> TRUE]
             ELSE twoLoads(read32bit(b, byteOffset), b.buf[b.pos + byteOffset + 4])
        ELSE oneLoad(Shr32(read32bit(b, byteOffset), Sub32(Sub32(32, numBits), bit7)))

\* dynGet: one Golomb-coded value, 16-bit variant (zero-run counts)
dynGet(b, bitPos, golombM, golombK) ==
  LET decoded(pre, val, tempBits) ==
        IF ULt32(val, 2)
          THEN [val    |-> Mul32(pre, golombM),
                bitPos |-> Sub32(tempBits, 1),
                panic  |-> FALSE]
          ELSE [val    |-> Sub32(Add32(Mul32(pre, golombM), val), 1),
                bitPos |-> tempBits,
                panic  |-> FALSE]
      streamLong == Shl32(read32bit(b, Shr32(bitPos, 3)), bitPos % 8)
      pre        == lead(Not32(streamLong))
  IN  IF ~read32bitInRange(b, Shr32(bitPos, 3)) THEN [val |-> 0, bitPos |-> bitPos, panic |-> TRUE]
      ELSE IF pre >= maxPrefix16
        THEN [val    |-> Shr32(Shl32(streamLong, maxPrefix16), 32 - maxDatatype16),
              bitPos |-> Add32(Add32(bitPos, maxPrefix16), maxDatatype16),
              panic  |-> FALSE]
        ELSE decoded(pre, Shr32(Shl32(streamLong, pre + 1), Sub32(32, golombK)),
                     Add32(Add32(bitPos, pre + 1), golombK))

\* dynGet32Bit: one Golomb-coded value, 32-bit variant (sample residuals)
dynGet32Bit(b, bitPos, golombM, golombK, maxBits) ==
  LET escaped(g) ==
        [val    |-> g.val,
         bitPos |-> Add32(Add32(bitPos, maxPrefix32), maxBits),
         panic  |-> g.panic]
      decoded(result, v, tempBits) ==
        IF golombK = 1 THEN [val |-> result, bitPos |-> tempBits, panic |-> FALSE]
        ELSE IF ~ULt32(v, 2)
          THEN [val    |-> Sub32(Add32(Mul32(result, golombM), v), 1),
                bitPos |-> Add32(tempBits, golombK),
                panic  |-> FALSE]
          ELSE [val    |-> Mul32(result, golombM),
                bitPos |-> Sub32(Add32(tempBits, golombK), 1),
                panic  |-> FALSE]
      streamLong == Shl32(read32bit(b, Shr32(bitPos, 3)), bitPos % 8)
      result     == lead(Not32(streamLong))
  IN  IF ~read32bitInRange(b, Shr32(bitPos, 3)) THEN [val |-> 0, bitPos |-> bitPos, panic |-> TRUE]
      ELSE IF result >= maxPrefix32
        THEN escaped(getStreamBits(b, Add32(bitPos, maxPrefix32), maxBits))
        ELSE decoded(result, Shr32(Shl32(streamLong, result + 1), Sub32(32, golombK)),
                     Add32(bitPos, result + 1))

\* zigzag-like sign recovery of dynDecomp ("Decode sign from LSB")
signDecode(ndecode) ==
  Mul32(Shr32(Add32(ndecode, 1), 1), IF ndecode % 2 = 1 THEN 0 - 1 ELSE 1)

\* "Update mean" of dynDecomp
meanUpdate(pbLocal, residual, zmode, meanAccum) ==
  IF ULt32(nMaxMeanClamp, residual) THEN nMeanClampVal
  ELSE Sub32(Add32(Mul32(pbLocal, Add32(residual, zmode)), meanAccum),
             Shr32(Mul32(pbLocal, meanAccum), qbShift))

\* Faulty variant of zeroFill: a zero run advances count without storing
\* the zeros, so that predCoefs keeps what the previous packet left there.
zeroFillSkipped(predCoefs, count, n) == predCoefs

\* the zero-run store loop: predCoefs[count .. count+n-1] = 0, as far as
\* the slice reaches
zeroFill(predCoefs, count, n) ==
  [i \in DOMAIN predCoefs |-> IF i >= count /\ i < count + n THEN 0 ELSE predCoefs[i]]

\* The zero-run branch of an iteration of dynDecomp: st1 is the state after
\* the sample was stored, k32 the Rice parameter of the run length.
dynDecompZeroRun(params, b, st1, numSamples, predLen, k32) ==
  LET stored(z, n) ==
        IF z.panic THEN [st1 EXCEPT !.status = "panic", !.zmode = 1]
        ELSE IF st1.count + n > numSamples
          THEN [st1 EXCEPT !.status = "errSampleOverrun", !.zmode = 1,
                           !.bitPos = z.bitPos, !.run = n]
        ELSE IF st1.count + n > predLen
          THEN [st1 EXCEPT !.status = "panic", !.bitPos = z.bitPos, !.run = n,
                           !.predCoefs = zeroFill(st1.predCoefs, st1.count, n)]
        ELSE [st1 EXCEPT !.bitPos = z.bitPos,
                         !.run = n,
                         !.predCoefs = zeroFill(st1.predCoefs, st1.count, n),
                         !.count = st1.count + n,
                         !.zmode = IF n >= maxZeroRun THEN 0 ELSE 1,
                         !.meanAccum = 0]
      run(z) == stored(z, U32ToInt(z.val))
  IN  run(dynGet(b, st1.bitPos, And32(Sub32(Shl32(1, k32), 1), params.wb), k32))

\* An iteration of dynDecomp from "Update mean" on: st1 is the state after
\* the sample was stored and the mean updated.
dynDecompMean(params, b, st1, numSamples, predLen) ==
  IF ULt32(Shl32(st1.meanAccum, mmulShift), quantBits) /\ st1.count < numSamples
    THEN dynDecompZeroRun(params, b, st1, numSamples, predLen,
                          MaxOf(Add32(lead(st1.meanAccum) - bitoff,
                                      Shr32(Add32(st1.meanAccum, moff), mdenShift)), 0))
    ELSE st1

\* An iteration of dynDecomp once the sample g is read.
dynDecompSample(params, b, st, numSamples, predLen, g) ==
  IF g.panic THEN [st EXCEPT !.status = "panic"]
  ELSE IF st.count >= predLen THEN [st EXCEPT !.status = "panic", !.bitPos = g.bitPos]
  ELSE dynDecompMean(params, b,
                     [st EXCEPT !.bitPos = g.bitPos,
                                !.predCoefs[st.count] = signDecode(Add32(g.val, st.zmode)),
                                !.count = st.count + 1,
                                !.meanAccum = meanUpdate(params.pb, g.val, st.zmode,
                                                         st.meanAccum),
                                !.zmode = 0,
                                !.n = g.val,
                                !.carry = st.zmode],
                     numSamples, predLen)

\* k := min(lg3a(int32(meanAccum >> qbShift)), int32(kbLocal))
\* Faulty variant of golombK: the parameter is not capped at kb.
golombKUncapped(meanAccum, kbLocal) == lg3a(Shr32(meanAccum, qbShift))

golombK(meanAccum, kbLocal) == MinOf(lg3a(Shr32(meanAccum, qbShift)), kbLocal)

\* m = (1 << uint32(k)) - 1
golombM(k) == Sub32(Shl32(1, k), 1)

\* One iteration of the sample loop of dynDecomp.  st holds the loop's
\* variables; st.status leaves "run" when the function returns or panics.
\* Of the last iteration st also keeps the Rice parameter k, the decoded
\* value n, the zmode it was combined with (carry) and the length of the
\* zero run (run, -1 when there was none).
dynDecompStep(params, b, st, numSamples, maxSize, maxPos, predLen) ==
  LET k == golombK(st.meanAccum, params.kb)
  IN  IF ~ULt32(st.bitPos, maxPos) THEN [st EXCEPT !.status = "errBitstreamOverrun"]
      ELSE dynDecompSample(params, b, [st EXCEPT !.k = k, !.run = 0 - 1], numSamples, predLen,
                           dynGet32Bit(b, st.bitPos, golombM(k), k, maxSize))

RECURSIVE dynDecompLoop(_, _, _, _, _, _, _)
dynDecompLoop(params, b, st, numSamples, maxSize, maxPos, predLen) ==
  IF st.status # "run" \/ st.count >= numSamples THEN st
  ELSE dynDecompLoop(params, b,
                     dynDecompStep(params, b, st, numSamples, maxSize, maxPos, predLen),
                     numSamples, maxSize, maxPos, predLen)

\* the variables of dynDecomp when its loop is entered
dynDecompEntry(params, bitBuf, predCoefs) ==
  [bitPos |-> bitBuf.bitIdx, meanAccum |-> params.mb0, zmode |-> 0, count |-> 0,
   predCoefs |-> predCoefs, status |-> "run", k |-> 0, n |-> 0, carry |-> 0, run |-> 0 - 1]

\* Faulty variant of dynDecompReturn: the main cursor stays where it was.
dynDecompReturnInPlace(bitBuf, st) ==
  [err |-> IF st.status = "run" THEN "ok" ELSE st.status, predCoefs |-> st.predCoefs,
   b |-> bitBuf]

\* what dynDecomp returns once its loop was left with the variables st:
\* after the last sample bitBuf.advance(bitPos - startPos)
dynDecompReturn(bitBuf, st) ==
  IF st.status = "run"
    THEN [err       |-> "ok",
          predCoefs |-> st.predCoefs,
          b         |-> advance(bitBuf, Sub32(st.bitPos, bitBuf.bitIdx))]
    ELSE [err |-> st.status, predCoefs |-> st.predCoefs, b |-> bitBuf]

\* dynDecomp(params, bitBuf, predCoefs, numSamples, maxSize): the error
\* ("ok", "errBitstreamOverrun", "errSampleOverrun" or "panic"), the residuals
\* and the cursor.  The slice expression buf[pos:] panics when pos is beyond
\* len(buf).
dynDecomp(params, bitBuf, predCoefs, predLen, numSamples, maxSize) ==
  IF bitBuf.pos > BufLen(bitBuf)
    THEN [err |-> "panic", predCoefs |-> predCoefs, b |-> bitBuf]
    ELSE dynDecompReturn(bitBuf,
                         dynDecompLoop(params, bitBuf,
                                       dynDecompEntry(params, bitBuf, predCoefs),
                                       numSamples, maxSize, bitBuf.size * 8, predLen))

\* ------------------------------------------------------------------------
\* Dynamic predictor (src/alac/predictor.go)
\* ------------------------------------------------------------------------

maxCoefs == 32

numActiveDelta == 31

signOfInt(val) == Or32(Shr32(Neg32(val), 31), Sar32(val, 31))

\* (del << chanShift) >> chanShift : truncation to the channel bit width
chanTrunc(del, chanShift) == Sar32(Shl32(del, chanShift), chanShift)

\* The predictor works on mem = [pc1, out, coefs, panic]; pc1 and out are
\* int32 slices indexed from 0 and of the same length.  When the caller
\* passes the same slice twice (alias), a store to out[j] is a store to
\* pc1[j] as well.
storeOut(mem, alias, j, v) ==
  [mem EXCEPT !.out[j] = v, !.pc1[j] = IF alias THEN v ELSE @]

sliceLen(f) == Cardinality(DOMAIN f)

\* Faulty variant of deltaNext: the previous output is read from pc1, where
\* it is found only when pc1 and out are the same slice.
deltaNextFromInput(mem, j, prev, chanShift) ==
  chanTrunc(Add32(mem.pc1[j], mem.pc1[j - 1]), chanShift)

\* an iteration of the delta loop: del := pc1[j] + prev,
\* prev = (del << chanShift) >> chanShift
deltaNext(mem, j, prev, chanShift) == chanTrunc(Add32(mem.pc1[j], prev), chanShift)

\* numActive == 31: first-order delta decode, samples j .. num-1
RECURSIVE deltaLoop(_, _, _, _, _, _)
deltaLoop(mem, alias, j, num, prev, chanShift) ==
  LET store(nxt) ==
        deltaLoop(storeOut(mem, alias, j, nxt), alias, j + 1, num, nxt, chanShift)
  IN  IF j >= num THEN mem
      ELSE IF j >= sliceLen(mem.pc1) THEN [mem EXCEPT !.panic = TRUE]
      ELSE store(deltaNext(mem, j, prev, chanShift))

\* Faulty variant of warmUpStore: the residual is stored, not the sum.
warmUpStoreResidual(mem, alias, j, chanShift) ==
  storeOut(mem, alias, j, chanTrunc(mem.pc1[j], chanShift))

\* an iteration of the warm-up loop: del := pc1[j] + out[j-1], out[j] =
\* (del << chanShift) >> chanShift
warmUpStore(mem, alias, j, chanShift) ==
  storeOut(mem, alias, j, chanTrunc(Add32(mem.pc1[j], mem.out[j - 1]), chanShift))

\* warm-up phase: out[j] for j = 1 .. numActive, whatever num is
RECURSIVE warmUp(_, _, _, _, _)
warmUp(mem, alias, j, numActive, chanShift) ==
  IF j > numActive THEN mem
  ELSE IF j >= sliceLen(mem.pc1) THEN [mem EXCEPT !.panic = TRUE]
  ELSE warmUp(warmUpStore(mem, alias, j, chanShift), alias, j + 1, numActive, chanShift)

\* sum1 of unpcBlockGeneral: coefs[k] * (out[j-1-k] - top), k = 0 .. numActive-1
RECURSIVE predSum(_, _, _, _, _, _)
predSum(coefs, out, j, top, k, numActive) ==
  IF k >= numActive THEN 0
  ELSE Add32(Mul32(coefs[k], Sub32(out[j - 1 - k], top)),
             predSum(coefs, out, j, top, k + 1, numActive))

\* The coefficient walk of unpcBlockGeneral from index k downwards; sg is
\* the sign of the raw residual.  Yields the coefficients after the walk.
RECURSIVE adaptGeneral(_, _, _, _, _, _, _, _, _)
adaptGeneral(coefs, out, j, k, del0, top, numActive, denShift, sg) ==
  LET next(c1, del1) ==
        IF (sg > 0 /\ del1 <= 0) \/ (sg < 0 /\ del1 >= 0) THEN c1
        ELSE adaptGeneral(c1, out, j, k - 1, del1, top, numActive, denShift, sg)
      adapt(dd, sgn) ==
        next([coefs EXCEPT ![k] = IF sg > 0 THEN Int16(@ - Int16(sgn))
                                            ELSE Int16(@ + Int16(sgn))],
             Sub32(del0, Mul32(numActive - k,
                               Sar32(Mul32(IF sg > 0 THEN sgn ELSE Neg32(sgn), dd),
                                     denShift))))
      dd == Sub32(top, out[j - 1 - k])
  IN  IF k < 0 THEN coefs
      ELSE adapt(dd, signOfInt(dd))

\* Faulty variant of adaptCoefs: the walk over the coefficients never stops
\* early.
adaptCoefsNoStop(m1, j, del0, top, numActive, denShift, sg) ==
  [m1 EXCEPT !.coefs = IF sg = 0 THEN @
                       ELSE adaptGeneral(m1.coefs, m1.out, j, numActive - 1,
                                         IF sg > 0 THEN 2147483647 ELSE 0 - 2147483647, top,
                                         numActive, 31, sg)]

\* The coefficient adaptation that follows the store of out[j] in
\* unpcBlockGeneral: m1 is the memory after the store, sg the sign of the
\* raw residual del0.
adaptCoefs(m1, j, del0, top, numActive, denShift, sg) ==
  [m1 EXCEPT !.coefs = IF sg = 0 THEN @
                       ELSE adaptGeneral(m1.coefs, m1.out, j, numActive - 1, del0, top,
                                         numActive, denShift, sg)]

RECURSIVE unpcBlockGeneral(_, _, _, _, _, _, _, _, _)
unpcBlockGeneral(mem, alias, j, num, numActive, lim, chanShift, denShift, denHalf) ==
  LET top  == mem.out[j - lim]
      del0 == mem.pc1[j]
      sum1 == predSum(mem.coefs, mem.out, j, top, 0, numActive)
      del  == Add32(del0, Add32(top, Sar32(Add32(sum1, denHalf), denShift)))
  IN  IF j >= num THEN mem
      ELSE IF j >= sliceLen(mem.pc1) THEN [mem EXCEPT !.panic = TRUE]
      ELSE unpcBlockGeneral(adaptCoefs(storeOut(mem, alias, j, chanTrunc(del, chanShift)),
                                       j, del0, top, numActive, denShift, signOfInt(del0)),
                            alias, j + 1, num, numActive, lim, chanShift, denShift, denHalf)

\* The hand-unrolled routines unpcBlock4 and unpcBlock8 keep the coefficients
\* in int32 locals a0 .. a(n-1) (a below) and store int16(a[i]) at the end.
\* denHalf - a0*b0 - ... - a(n-1)*b(n-1), with b[k] = top - out[j-1-k]
RECURSIVE unrolledSum(_, _, _, _, _, _)
unrolledSum(acc, a, out, j, top, k) ==
  IF k >= sliceLen(a) THEN acc
  ELSE unrolledSum(Sub32(acc, Mul32(a[k], Sub32(top, out[j - 1 - k]))), a, out, j, top, k + 1)

\* the goto chain of the unrolled routines, from coefficient k downwards;
\* b values are those computed before out[j] was stored
RECURSIVE adaptUnrolled(_, _, _, _, _, _, _)
adaptUnrolled(a, b, k, del0, n, denShift, sg) ==
  LET last(s0) == [a EXCEPT ![0] = IF sg > 0 THEN Sub32(@, s0) ELSE Add32(@, s0)]
      next(a1, del1) ==
        IF (sg > 0 /\ del1 <= 0) \/ (sg < 0 /\ del1 >= 0) THEN a1
        ELSE adaptUnrolled(a1, b, k - 1, del1, n, denShift, sg)
      adapt(sgn) ==
        next([a EXCEPT ![k] = Sub32(@, Int16(sgn))],
             Sub32(del0, Mul32(n - k, Sar32(Mul32(sgn, b[k]), denShift))))
      sgb == signOfInt(b[k])
  IN  IF k = 0 THEN last(Int16(sgb))
      ELSE adapt(IF sg > 0 THEN sgb ELSE Neg32(sgb))

\* The coefficient adaptation that follows the store of out[j] in the
\* unrolled routines: b holds the differences top - out[j-1-k].
adaptLocals(a, b, del0, denShift, sg) ==
  IF sg = 0 THEN a
  ELSE adaptUnrolled(a, b, sliceLen(a) - 1, del0, sliceLen(a), denShift, sg)

\* the sample loop of unpcBlock4 / unpcBlock8; st = [mem, a]
RECURSIVE unrolledLoop(_, _, _, _, _, _, _, _)
unrolledLoop(st, alias, j, num, lim, chanShift, denShift, denHalf) ==
  LET out  == st.mem.out
      top  == out[j - lim]
      del0 == st.mem.pc1[j]
      sum1 == Sar32(unrolledSum(denHalf, st.a, out, j, top, 0), denShift)
  IN  IF j >= num THEN st
      ELSE IF j >= sliceLen(st.mem.pc1) THEN [st EXCEPT !.mem.panic = TRUE]
      ELSE unrolledLoop([mem |-> storeOut(st.mem, alias, j,
                                          chanTrunc(Add32(del0, Add32(top, sum1)), chanShift)),
                         a   |-> adaptLocals(st.a,
                                             [k \in 0 .. (sliceLen(st.a) - 1) |->
                                                Sub32(top, out[j - 1 - k])],
                                             del0, denShift, signOfInt(del0))],
                        alias, j + 1, num, lim, chanShift, denShift, denHalf)

unpcBlockUnrolled(n, mem, alias, num, lim, chanShift, denShift, denHalf) ==
  LET finish(st) ==
        IF st.mem.panic THEN st.mem
        ELSE [st.mem EXCEPT !.coefs = [k \in DOMAIN @ |-> Int16(st.a[k])]]
  IN  finish(unrolledLoop([mem |-> mem, a |-> [k \in 0 .. (n - 1) |-> mem.coefs[k]]],
                          alias, lim, num, lim, chanShift, denShift, denHalf))

unpcBlock4(mem, alias, num, lim, chanShift, denShift, denHalf) ==
  unpcBlockUnrolled(4, mem, alias, num, lim, chanShift, denShift, denHalf)

unpcBlock8(mem, alias, num, lim, chanShift, denShift, denHalf) ==
  unpcBlockUnrolled(8, mem, alias, num, lim, chanShift, denShift, denHalf)

\* unpcBlock(pc1, out, num, coefs, numActive, chanBits, denShift); alias
\* says that pc1 and out are the same slice.  Yields [pc1, out, coefs, panic].
unpcBlock(pc1, out, alias, num, coefs, numActive, chanBits, denShift) ==
  LET chanShift == Sub32(32, chanBits)
      denHalf   == IF denShift > 0 THEN Shl32(1, denShift - 1) ELSE 0
      lim       == numActive + 1
      mem0      == [pc1 |-> pc1, out |-> out, coefs |-> coefs, panic |-> FALSE]
      \* out[0] = pc1[0]
      mem1      == storeOut(mem0, alias, 0, pc1[0])
      \* the warm-up of the predicting cases
      mem2      == warmUp(mem1, alias, 1, numActive, chanShift)
  IN  IF sliceLen(pc1) = 0 THEN [mem0 EXCEPT !.panic = TRUE]
      ELSE IF numActive = 0
        THEN IF num > 1 /\ ~alias
               THEN IF num > sliceLen(pc1) THEN [mem1 EXCEPT !.panic = TRUE]
                    ELSE [mem1 EXCEPT !.out = [i \in DOMAIN @ |->
                                       IF i >= 1 /\ i < num THEN pc1[i] ELSE @[i]]]
               ELSE mem1
      ELSE IF numActive = numActiveDelta
        THEN deltaLoop(mem1, alias, 1, num, mem1.out[0], chanShift)
      ELSE IF mem2.panic THEN mem2
      ELSE IF numActive = 4
        THEN unpcBlock4(mem2, alias, num, lim, chanShift, denShift, denHalf)
      ELSE IF numActive = 8
        THEN unpcBlock8(mem2, alias, num, lim, chanShift, denShift, denHalf)
      ELSE unpcBlockGeneral(mem2, alias, lim, num, numActive, lim,
                            chanShift, denShift, denHalf)

\* ------------------------------------------------------------------------
\* Matrix unmix and output byte formatting (matrix_dec.c port)
\* ------------------------------------------------------------------------

\* byte r (0 = least significant) of the 32-bit pattern val
leByte(val, r) ==
  IF r = 0 THEN Lo16(val) % 256
  ELSE IF r = 1 THEN Lo16(val) \div 256
  ELSE IF r = 2 THEN Hi16U(val) % 256
  ELSE Hi16U(val) \div 256

\* left channel of the stereo unmix
unmixLeft(u, v, mixBits, mixRes) ==
  IF mixRes # 0 THEN Sub32(Add32(u, v), Sar32(Mul32(mixRes, v), mixBits)) ELSE u

\* right channel of the stereo unmix
unmixRight(u, v, mixBits, mixRes) ==
  IF mixRes # 0 THEN Sub32(unmixLeft(u, v, mixBits, mixRes), v) ELSE v

\* (val << shift) | int32(shiftBuf[i]) when bytesShifted != 0
reinject(val, shiftBuf, i, bytesShifted) ==
  IF bytesShifted # 0 THEN Or32(Shl32(val, bytesShifted * 8), shiftBuf[i]) ELSE val

\* The store loop shared by the write functions: for idx < numSamples the
\* width bytes at pos = offset + idx*stride become B[idx, 0 .. width-1].
\* A store outside out, or a read of mixU[idx] outside the scratch slice
\* of length scratchLen, is a run-time panic.
storeSamples(out, offset, stride, width, numSamples, scratchLen, B) ==
  IF numSamples <= 0 THEN [out |-> out, panic |-> FALSE]
  ELSE IF numSamples > scratchLen
            \/ offset + (numSamples - 1) * stride + width > sliceLen(out)
    THEN [out |-> out, panic |-> TRUE]
  ELSE [out   |-> [p \in DOMAIN out |->
                     IF p >= offset /\ ((p - offset) % stride) < width
                                    /\ ((p - offset) \div stride) < numSamples
                       THEN B[(p - offset) \div stride, (p - offset) % stride]
                       ELSE out[p]],
        panic |-> FALSE]

\* the sample indices a write function can read from the scratch slice s
sampleRange(s, numSamples) == 0 .. (MinOf(numSamples, sliceLen(s)) - 1)

writeStereo16(out, mixU, mixV, chanIdx, numChan, numSamples, mixBits, mixRes) ==
  LET B == [idx \in sampleRange(mixU, numSamples), r \in 0 .. 3 |->
              IF r < 2 THEN leByte(unmixLeft(mixU[idx], mixV[idx], mixBits, mixRes), r)
              ELSE leByte(unmixRight(mixU[idx], mixV[idx], mixBits, mixRes), r - 2)]
  IN  storeSamples(out, chanIdx * 2, numChan * 2, 4, numSamples, sliceLen(mixU), B)

writeStereo20(out, mixU, mixV, chanIdx, numChan, numSamples, mixBits, mixRes) ==
  LET B == [idx \in sampleRange(mixU, numSamples), r \in 0 .. 5 |->
              IF r < 3 THEN leByte(Shl32(unmixLeft(mixU[idx], mixV[idx], mixBits, mixRes), 4), r)
              ELSE leByte(Shl32(unmixRight(mixU[idx], mixV[idx], mixBits, mixRes), 4), r - 3)]
  IN  storeSamples(out, chanIdx * 3, numChan * 3, 6, numSamples, sliceLen(mixU), B)

writeStereo24(out, mixU, mixV, chanIdx, numChan, numSamples, mixBits, mixRes, shiftBuf, bytesShifted) ==
  LET B == [idx \in sampleRange(mixU, numSamples), r \in 0 .. 5 |->
              IF r < 3
                THEN leByte(reinject(unmixLeft(mixU[idx], mixV[idx], mixBits, mixRes),
                                     shiftBuf, idx * 2, bytesShifted), r)
                ELSE leByte(reinject(unmixRight(mixU[idx], mixV[idx], mixBits, mixRes),
                                     shiftBuf, idx * 2 + 1, bytesShifted), r - 3)]
  IN  storeSamples(out, chanIdx * 3, numChan * 3, 6, numSamples, sliceLen(mixU), B)

writeStereo32(out, mixU, mixV, chanIdx, numChan, numSamples, mixBits, mixRes, shiftBuf, bytesShifted) ==
  LET B == [idx \in sampleRange(mixU, numSamples), r \in 0 .. 7 |->
              IF r < 4
                THEN leByte(reinject(unmixLeft(mixU[idx], mixV[idx], mixBits, mixRes),
                                     shiftBuf, idx * 2, bytesShifted), r)
                ELSE leByte(reinject(unmixRight(mixU[idx], mixV[idx], mixBits, mixRes),
                                     shiftBuf, idx * 2 + 1, bytesShifted), r - 4)]
  IN  storeSamples(out, chanIdx * 4, numChan * 4, 8, numSamples, sliceLen(mixU), B)

\* Faulty variant of writeMono16: the samples go to the first channel.
writeMono16AtZero(out, mixU, chanIdx, numChan, numSamples) ==
  LET B == [idx \in sampleRange(mixU, numSamples), r \in 0 .. 1 |-> leByte(mixU[idx], r)]
  IN  storeSamples(out, 0, numChan * 2, 2, numSamples, sliceLen(mixU), B)

writeMono16(out, mixU, chanIdx, numChan, numSamples) ==
  LET B == [idx \in sampleRange(mixU, numSamples), r \in 0 .. 1 |-> leByte(mixU[idx], r)]
  IN  storeSamples(out, chanIdx * 2, numChan * 2, 2, numSamples, sliceLen(mixU), B)

writeMono20(out, mixU, chanIdx, numChan, numSamples) ==
  LET B == [idx \in sampleRange(mixU, numSamples), r \in 0 .. 2 |->
              leByte(Shl32(mixU[idx], 4), r)]
  IN  storeSamples(out, chanIdx * 3, numChan * 3, 3, numSamples, sliceLen(mixU), B)

\* Faulty variant of writeMono24: every sample takes the first entry of
\* shiftBuf.
writeMono24FirstField(out, mixU, chanIdx, numChan, numSamples, shiftBuf, bytesShifted) ==
  LET B == [idx \in sampleRange(mixU, numSamples), r \in 0 .. 2 |->
              leByte(reinject(mixU[idx], shiftBuf, 0, bytesShifted), r)]
  IN  storeSamples(out, chanIdx * 3, numChan * 3, 3, numSamples, sliceLen(mixU), B)

writeMono24(out, mixU, chanIdx, numChan, numSamples, shiftBuf, bytesShifted) ==
  LET B == [idx \in sampleRange(mixU, numSamples), r \in 0 .. 2 |->
              leByte(reinject(mixU[idx], shiftBuf, idx, bytesShifted), r)]
  IN  storeSamples(out, chanIdx * 3, numChan * 3, 3, numSamples, sliceLen(mixU), B)

writeMono32(out, mixU, chanIdx, numChan, numSamples, shiftBuf, bytesShifted) ==
  LET B == [idx \in sampleRange(mixU, numSamples), r \in 0 .. 3 |->
              leByte(reinject(mixU[idx], shiftBuf, idx, bytesShifted), r)]
  IN  storeSamples(out, chanIdx * 4, numChan * 4, 4, numSamples, sliceLen(mixU), B)

\* ------------------------------------------------------------------------
\* Config, PCMFormat and Decoder (src/types.go, src/alac/decoder.go)
\* ------------------------------------------------------------------------

elemSCE == 0

elemCPE == 1

elemCCE == 2

elemLFE == 3

elemDSE == 4

elemPCE == 5

elemFIL == 6

elemEND == 7

unusedHeaderBits == 12

\* the nil byte slice / nil pointer
Nil == "nil"

\* saprobe.ToBitDepth
ToBitDepth(bps) ==
  IF bps \in {4, 8, 12, 16, 20, 24, 32}
    THEN [depth |-> bps, err |-> "none"]
    ELSE [depth |-> 0, err |-> "errUnsupportedBitDepth"]

\* BitDepth.BytesPerSample; 0 stands for the panic of the default case
BytesPerSample(depth) ==
  IF depth \in {4, 8} THEN 1
  ELSE IF depth \in {12, 16} THEN 2
  ELSE IF depth \in {20, 24} THEN 3
  ELSE IF depth = 32 THEN 4
  ELSE 0

\* make([]T, n): n zero values
makeSlice(n) == [i \in 0 .. (n - 1) |-> 0]

\* The scratch slices a Decoder owns, as allocated by NewDecoder
newScratch(frameLen) ==
  [mixBufferU  |-> makeSlice(frameLen),
   mixBufferV  |-> makeSlice(frameLen),
   predictor   |-> makeSlice(frameLen),
   shiftBuffer |-> makeSlice(frameLen * 2)]

\* Faulty variant of NewDecoder: the scratch slices are package-level
\* buffers, the same for every Decoder (the first four addresses).
NewDecoderSharedScratch(config, base) ==
  LET bd == ToBitDepth(config.BitDepth)
  IN  IF bd.err # "none" THEN [err |-> "errBitDepth", dec |-> Nil]
      ELSE [err |-> "none",
            dec |-> [config      |-> config,
                     format      |-> [SampleRate |-> config.SampleRate,
                                      BitDepth   |-> bd.depth,
                                      Channels   |-> config.NumChannels],
                     mixBufferU  |-> 1,
                     mixBufferV  |-> 2,
                     predictor   |-> 3,
                     shiftBuffer |-> 4]]

\* NewDecoder(config): the error and the Decoder.  The four slices are new
\* allocations; the Decoder holds references to them, base .. base+3 in the
\* heap of the model.
NewDecoder(config, base) ==
  LET bd == ToBitDepth(config.BitDepth)
  IN  IF bd.err # "none" THEN [err |-> "errBitDepth", dec |-> Nil]
      ELSE [err |-> "none",
            dec |-> [config      |-> config,
                     format      |-> [SampleRate |-> config.SampleRate,
                                      BitDepth   |-> bd.depth,
                                      Channels   |-> config.NumChannels],
                     mixBufferU  |-> base,
                     mixBufferV  |-> base + 1,
                     predictor   |-> base + 2,
                     shiftBuffer |-> base + 3]]

\* ---- channel elements ---------------------------------------------------

\* Result of the header of decodeSCE / decodeCPE: status is "ok", "err" or
\* "panic"; b is the cursor where the function stands.
hdrResult(status, err, b, reserved, headerByte, chanBits, ns) ==
  [status       |-> status,
   err          |-> err,
   b            |-> b,
   reserved     |-> reserved,
   partialFrame |-> headerByte \div 8,
   bytesShifted |-> (headerByte \div 2) % 4,
   escapeFlag   |-> headerByte % 2,
   chanBits     |-> chanBits,
   ns           |-> ns]

\* Faulty variant of elementHeader: the reserved bytes-shifted value 3 is
\* not rejected.
elementHeaderAnyShift(config, bits, numSamples, pairBit) ==
  LET chanBits(hb) == Add32(Sub32(config.BitDepth, ((hb \div 2) % 4) * 8), pairBit)
      counted(t3, t4, t5) ==
        IF t4.panic \/ t5.panic
          THEN hdrResult("panic", "none", t3.b, 0, t3.val, chanBits(t3.val), numSamples)
          ELSE hdrResult("ok", "none", t5.b, 0, t3.val, chanBits(t3.val), Mk32(t4.val, t5.val))
      count(t3, t4) == counted(t3, t4, read(t4.b, 16))
      header(t2, t3) ==
        IF t3.panic THEN hdrResult("panic", "none", t2.b, 0, 0, 0, numSamples)
        ELSE IF t3.val \div 8 = 0
          THEN hdrResult("ok", "none", t3.b, 0, t3.val, chanBits(t3.val), numSamples)
        ELSE count(t3, read(t3.b, 16))
      unused(t1, t2) ==
        IF t1.panic \/ t2.panic THEN hdrResult("panic", "none", t1.b, 0, 0, 0, numSamples)
        ELSE IF t2.val # 0
          THEN hdrResult("err", "errInvalidHeader", t2.b, t2.val, 0, 0, numSamples)
        ELSE header(t2, read(t2.b, 4))
      instance(t1) == unused(t1, read(t1.b, unusedHeaderBits))
  IN  instance(readSmall(bits, 4))

\* The header of a channel element: instance tag, 12 unused bits, the 4-bit
\* header and the optional 32-bit sample count.  pairBit is 1 in decodeCPE
\* ("+1 bit for decorrelation") and 0 in decodeSCE.
elementHeader(config, bits, numSamples, pairBit) ==
  LET bytesShifted(hb) == (hb \div 2) % 4
      chanBits(hb) == Add32(Sub32(config.BitDepth, bytesShifted(hb) * 8), pairBit)
      \* the two halves t4, t5 of the explicit sample count
      counted(t3, t4, t5) ==
        IF t4.panic \/ t5.panic
          THEN hdrResult("panic", "none", t3.b, 0, t3.val, chanBits(t3.val), numSamples)
          ELSE hdrResult("ok", "none", t5.b, 0, t3.val, chanBits(t3.val), Mk32(t4.val, t5.val))
      count(t3, t4) == counted(t3, t4, read(t4.b, 16))
      \* the 4-bit header t3 that follows the unused bits t2
      header(t2, t3) ==
        IF t3.panic THEN hdrResult("panic", "none", t2.b, 0, 0, 0, numSamples)
        ELSE IF bytesShifted(t3.val) = 3
          THEN hdrResult("err", "errInvalidShift", t3.b, 0, t3.val, 0, numSamples)
        ELSE IF t3.val \div 8 = 0
          THEN hdrResult("ok", "none", t3.b, 0, t3.val, chanBits(t3.val), numSamples)
        ELSE count(t3, read(t3.b, 16))
      \* the 12 unused bits t2 that follow the instance tag t1
      unused(t1, t2) ==
        IF t1.panic \/ t2.panic THEN hdrResult("panic", "none", t1.b, 0, 0, 0, numSamples)
        ELSE IF t2.val # 0
          THEN hdrResult("err", "errInvalidHeader", t2.b, t2.val, 0, 0, numSamples)
        ELSE header(t2, read(t2.b, 4))
      instance(t1) == unused(t1, read(t1.b, unusedHeaderBits))
  IN  instance(readSmall(bits, 4))

\* one raw sample of the escape paths: sign-extended field of chanBits bits
escapeRead(b, chanBits) ==
  LET shift == Sub32(32, chanBits)
      one(r) == [val |-> Sar32(Shl32(r.val, shift), shift), b |-> r.b, panic |-> r.panic]
      two(r1, r2) == [val   |-> Or32(Sar32(Shl32(r1.val, 16), shift), r2.val),
                      b     |-> r2.b,
                      panic |-> r1.panic \/ r2.panic]
      second(r1) == two(r1, read(r1.b, Sub32(chanBits, 16) % 256))
  IN  IF ~ULt32(16, chanBits)
        THEN one(read(b, chanBits % 256))
        ELSE second(read(b, 16))

\* loop of decodeSCEEscape from sample idx on; yields [b, sc, panic]
RECURSIVE sceEscapeLoop(_, _, _, _, _)
sceEscapeLoop(b, sc, chanBits, numSamples, idx) ==
  LET store(r) ==
        IF r.panic \/ idx >= sliceLen(sc.mixBufferU)
          THEN [b |-> b, sc |-> sc, panic |-> TRUE]
          ELSE sceEscapeLoop(r.b, [sc EXCEPT !.mixBufferU[idx] = r.val],
                             chanBits, numSamples, idx + 1)
  IN  IF idx >= numSamples THEN [b |-> b, sc |-> sc, panic |-> FALSE]
      ELSE store(escapeRead(b, chanBits))

decodeSCEEscape(bits, sc, chanBits, numSamples) ==
  sceEscapeLoop(bits, sc, chanBits, numSamples, 0)

\* loop of decodeCPEEscape from sample idx on: U and V fields alternate
RECURSIVE cpeEscapeLoop(_, _, _, _, _)
cpeEscapeLoop(b, sc, chanBits, numSamples, idx) ==
  LET store(ru, rv) ==
        IF ru.panic \/ idx >= sliceLen(sc.mixBufferU)
          THEN [b |-> b, sc |-> sc, panic |-> TRUE]
        ELSE IF rv.panic \/ idx >= sliceLen(sc.mixBufferV)
          THEN [b |-> ru.b, sc |-> [sc EXCEPT !.mixBufferU[idx] = ru.val], panic |-> TRUE]
        ELSE cpeEscapeLoop(rv.b, [sc EXCEPT !.mixBufferU[idx] = ru.val,
                                            !.mixBufferV[idx] = rv.val],
                           chanBits, numSamples, idx + 1)
      second(ru) == store(ru, escapeRead(ru.b, chanBits))
  IN  IF idx >= numSamples THEN [b |-> b, sc |-> sc, panic |-> FALSE]
      ELSE second(escapeRead(b, chanBits))

decodeCPEEscape(bits, sc, chanBits, numSamples) ==
  cpeEscapeLoop(bits, sc, chanBits, numSamples, 0)

\* coefs[i] = int16(bits.read(16)) for i = i .. num-1
RECURSIVE readCoefs(_, _, _, _)
readCoefs(b, coefs, i, num) ==
  LET store(r) ==
        IF r.panic THEN [b |-> b, coefs |-> coefs, panic |-> TRUE]
        ELSE readCoefs(r.b, [coefs EXCEPT ![i] = Int16(r.val)], i + 1, num)
  IN  IF i >= num THEN [b |-> b, coefs |-> coefs, panic |-> FALSE]
      ELSE store(read(b, 16))

\* the predictor parameters of one channel: mode and denShift, pbFactor and
\* the number of coefficients, then the coefficients (coefs[:num])
readPredParams(b) ==
  LET params(h1, h2, cf) ==
        [mode     |-> h1.val \div 16,
         denShift |-> h1.val % 16,
         pbFactor |-> h2.val \div 32,
         num      |-> h2.val % 32,
         coefs    |-> cf.coefs,
         b        |-> cf.b,
         panic    |-> h1.panic \/ h2.panic \/ cf.panic]
      coefs(h1, h2) == params(h1, h2, readCoefs(h2.b, makeSlice(h2.val % 32), 0, h2.val % 32))
      second(h1) == coefs(h1, read(h1.b, 8))
  IN  second(read(b, 8))

\* The prediction pass of one channel: u1 is the outcome of the delta pass
\* over the residuals, b the cursor dynDecomp left.
decodeChannelPredict(sc, dst, pp, chanBits, numSamples, b, u1) ==
  LET stored(u2) ==
        [err |-> IF u2.panic THEN "panic" ELSE "ok",
         b   |-> b,
         sc  |-> [sc EXCEPT !.predictor = u1.out, ![dst] = u2.out]]
  IN  IF u1.panic THEN [err |-> "panic", b |-> b, sc |-> [sc EXCEPT !.predictor = u1.out]]
      ELSE stored(unpcBlock(u1.out, sc[dst], FALSE, numSamples,
                            pp.coefs, pp.num, chanBits, pp.denShift))

\* The optional in-place delta pass of one channel: dd is the outcome of
\* dynDecomp.
decodeChannelDelta(sc, dst, pp, chanBits, numSamples, dd) ==
  IF dd.err # "ok"
    THEN [err |-> dd.err, b |-> dd.b, sc |-> [sc EXCEPT !.predictor = dd.predCoefs]]
    ELSE decodeChannelPredict(sc, dst, pp, chanBits, numSamples, dd.b,
                              IF pp.mode # 0
                                THEN unpcBlock(dd.predCoefs, dd.predCoefs, TRUE, numSamples,
                                               makeSlice(0), numActiveDelta, chanBits, 0)
                                ELSE [pc1 |-> dd.predCoefs, out |-> dd.predCoefs,
                                      coefs |-> makeSlice(0), panic |-> FALSE])

\* Entropy decoding and prediction of one channel into dst ("mixBufferU" or
\* "mixBufferV"): setAGParams, dynDecomp, the optional in-place delta pass
\* and unpcBlock.  Yields [err, b, sc], err "ok", an error name or "panic".
decodeChannel(config, bits, sc, dst, pp, chanBits, numSamples) ==
  decodeChannelDelta(sc, dst, pp, chanBits, numSamples,
                     dynDecomp(setAGParams(config.MB, (config.PB * pp.pbFactor) \div 4,
                                           config.KB, numSamples, numSamples, config.MaxRun),
                               bits, sc.predictor, sliceLen(sc.predictor), numSamples,
                               chanBits))

\* shiftBuffer[i] = uint16(shiftBits.read(shift)) for i = i .. count-1
RECURSIVE readShiftBits(_, _, _, _, _)
readShiftBits(sb, sc, i, count, shift) ==
  LET store(r) ==
        IF r.panic \/ i >= sliceLen(sc.shiftBuffer)
          THEN [b |-> sb, sc |-> sc, panic |-> TRUE]
          ELSE readShiftBits(r.b, [sc EXCEPT !.shiftBuffer[i] = r.val % 65536],
                             i + 1, count, shift)
  IN  IF i >= count THEN [b |-> sb, sc |-> sc, panic |-> FALSE]
      ELSE store(read(sb, shift))

\* Result of the part of decodeSCE / decodeCPE that fills the scratch
\* slices.  hd is the element header, sampleEnd the furthest bit position
\* the element's sample data was read from.
dataResult(status, err, b, sc, hd, bytesShifted, mixBits, mixRes, sampleEnd) ==
  [status       |-> status,
   err          |-> err,
   b            |-> b,
   sc           |-> sc,
   hd           |-> hd,
   ns           |-> hd.ns,
   bytesShifted |-> bytesShifted,
   mixBits      |-> mixBits,
   mixRes       |-> mixRes,
   sampleEnd    |-> sampleEnd]

\* Faulty variant of decodeSCEChannel: the cursor is copied after dynDecomp
\* and nothing is skipped before it.
decodeSCEChannelCopyLate(config, sc, chanBits, bytesShifted, numSamples, panicked, pp) ==
  LET shifted(ch, rs) ==
        [err       |-> IF rs.panic THEN "panic" ELSE "ok",
         b         |-> ch.b,
         sc        |-> rs.sc,
         sampleEnd |-> MaxOf(bitPosition(ch.b), bitPosition(rs.b))]
      channel(ch) ==
        IF ch.err # "ok" THEN [err |-> ch.err, b |-> ch.b, sc |-> ch.sc, sampleEnd |-> 0]
        ELSE IF bytesShifted = 0
          THEN [err |-> "ok", b |-> ch.b, sc |-> ch.sc, sampleEnd |-> bitPosition(ch.b)]
        ELSE shifted(ch, readShiftBits(copy(ch.b), ch.sc, 0, numSamples, bytesShifted * 8))
  IN  IF panicked \/ pp.panic
        THEN [err |-> "panic", b |-> pp.b, sc |-> sc, sampleEnd |-> 0]
        ELSE channel(decodeChannel(config, pp.b, sc, "mixBufferU", pp, chanBits, numSamples))

\* decodeSCECompressed once the predictor parameters pp are read; panicked
\* says that a read before them left the buffer.
decodeSCEChannel(config, sc, chanBits, bytesShifted, numSamples, panicked, pp) ==
  LET shifted(ch, rs) ==
        [err       |-> IF rs.panic THEN "panic" ELSE "ok",
         b         |-> ch.b,
         sc        |-> rs.sc,
         sampleEnd |-> MaxOf(bitPosition(ch.b), bitPosition(rs.b))]
      channel(ch) ==
        IF ch.err # "ok" THEN [err |-> ch.err, b |-> ch.b, sc |-> ch.sc, sampleEnd |-> 0]
        ELSE IF bytesShifted = 0
          THEN [err |-> "ok", b |-> ch.b, sc |-> ch.sc, sampleEnd |-> bitPosition(ch.b)]
        ELSE shifted(ch, readShiftBits(copy(pp.b), ch.sc, 0, numSamples, bytesShifted * 8))
  IN  IF panicked \/ pp.panic
        THEN [err |-> "panic", b |-> pp.b, sc |-> sc, sampleEnd |-> 0]
        ELSE channel(decodeChannel(config,
                                   IF bytesShifted # 0
                                     THEN advance(pp.b, Mul32(bytesShifted * 8, numSamples))
                                     ELSE pp.b,
                                   sc, "mixBufferU", pp, chanBits, numSamples))

\* decodeSCECompressed: yields [err, b, sc, sampleEnd]
decodeSCECompressed(config, bits, sc, chanBits, bytesShifted, numSamples) ==
  LET r1 == read(bits, 8)
      r2 == read(r1.b, 8)
  IN  decodeSCEChannel(config, sc, chanBits, bytesShifted, numSamples,
                       r1.panic \/ r2.panic, readPredParams(r2.b))

\* decodeCPECompressed once the channel U is decoded with outcome chU; mix
\* holds mixBits and mixRes, ppV the predictor parameters of the channel V.
decodeCPEChannelV(config, chanBits, bytesShifted, numSamples, mix, ppV, chU) ==
  LET shifted(chV, rs) ==
        [err       |-> IF rs.panic THEN "panic" ELSE "ok",
         b         |-> chV.b,
         sc        |-> rs.sc,
         mixBits   |-> mix.mixBits,
         mixRes    |-> mix.mixRes,
         sampleEnd |-> MaxOf(bitPosition(chV.b), bitPosition(rs.b))]
      channel(chV) ==
        IF chV.err # "ok"
          THEN [err |-> chV.err, b |-> chV.b, sc |-> chV.sc, mixBits |-> 0, mixRes |-> 0,
                sampleEnd |-> 0]
        ELSE IF bytesShifted = 0
          THEN [err |-> "ok", b |-> chV.b, sc |-> chV.sc, mixBits |-> mix.mixBits,
                mixRes |-> mix.mixRes, sampleEnd |-> bitPosition(chV.b)]
        ELSE shifted(chV, readShiftBits(copy(ppV.b), chV.sc, 0, numSamples * 2,
                                        bytesShifted * 8))
  IN  IF chU.err # "ok"
        THEN [err |-> chU.err, b |-> chU.b, sc |-> chU.sc, mixBits |-> 0, mixRes |-> 0,
              sampleEnd |-> 0]
        ELSE channel(decodeChannel(config, chU.b, chU.sc, "mixBufferV", ppV,
                                   chanBits, numSamples))

\* decodeCPECompressed once the predictor parameters ppU and ppV are read
decodeCPEChannelU(config, sc, chanBits, bytesShifted, numSamples, panicked, mix, ppU, ppV) ==
  IF panicked \/ ppU.panic \/ ppV.panic
    THEN [err |-> "panic", b |-> ppV.b, sc |-> sc, mixBits |-> 0, mixRes |-> 0,
          sampleEnd |-> 0]
    ELSE decodeCPEChannelV(config, chanBits, bytesShifted, numSamples, mix, ppV,
                           decodeChannel(config,
                                         IF bytesShifted # 0
                                           THEN advance(ppV.b,
                                                        Mul32(Mul32(bytesShifted * 8, 2),
                                                              numSamples))
                                           ELSE ppV.b,
                                         sc, "mixBufferU", ppU, chanBits, numSamples))

\* decodeCPECompressed once the predictor parameters ppU are read
decodeCPEParamsV(config, sc, chanBits, bytesShifted, numSamples, panicked, mix, ppU) ==
  decodeCPEChannelU(config, sc, chanBits, bytesShifted, numSamples, panicked, mix, ppU,
                    readPredParams(ppU.b))

\* Faulty variant of readMix: mixRes is taken as an unsigned byte.
readMixUnsigned(bits) ==
  LET r1 == read(bits, 8)
      r2 == read(r1.b, 8)
  IN  [mixBits |-> r1.val, mixRes |-> r2.val, b |-> r2.b, panic |-> r1.panic \/ r2.panic]

\* mixBits := int32(bits.read(8)); mixRes := int32(int8(bits.read(8)))
readMix(bits) ==
  LET r1 == read(bits, 8)
      r2 == read(r1.b, 8)
  IN  [mixBits |-> r1.val, mixRes |-> Int8(r2.val), b |-> r2.b, panic |-> r1.panic \/ r2.panic]

\* decodeCPECompressed: yields [err, b, sc, mixBits, mixRes, sampleEnd]
decodeCPECompressed(config, bits, sc, chanBits, bytesShifted, numSamples) ==
  LET mix == readMix(bits)
  IN  decodeCPEParamsV(config, sc, chanBits, bytesShifted, numSamples, mix.panic,
                       [mixBits |-> mix.mixBits, mixRes |-> mix.mixRes],
                       readPredParams(mix.b))

\* status of a sub-call that yields err "ok", an error name or "panic"
statusOf(err) == IF err = "ok" THEN "ok" ELSE IF err = "panic" THEN "panic" ELSE "err"

errOf(err) == IF err = "ok" \/ err = "panic" THEN "none" ELSE err

\* decodeSCE between the header hd and "Write output": the compressed or
\* the escape path into the scratch slices
decodeSCEBody(config, sc, hd) ==
  LET compressed(c) ==
        dataResult(statusOf(c.err), errOf(c.err), c.b, c.sc, hd, hd.bytesShifted,
                   0, 0, c.sampleEnd)
      escape(e) ==
        dataResult(IF e.panic THEN "panic" ELSE "ok", "none", e.b, e.sc, hd, 0,
                   0, 0, bitPosition(e.b))
  IN  IF hd.status # "ok" THEN dataResult(hd.status, hd.err, hd.b, sc, hd, 0, 0, 0, 0)
      ELSE IF hd.escapeFlag = 0
        THEN compressed(decodeSCECompressed(config, hd.b, sc, hd.chanBits,
                                            hd.bytesShifted, U32ToInt(hd.ns)))
        ELSE escape(decodeSCEEscape(hd.b, sc, hd.chanBits, U32ToInt(hd.ns)))

\* decodeSCE up to "Write output"
decodeSCEData(config, bits, sc, numSamples) ==
  decodeSCEBody(config, sc, elementHeader(config, bits, numSamples, 0))

\* decodeSCE from "Write output" on: the switch on the bit depth.  Yields
\* [out, panic]; the default case panics.
decodeSCEWrite(config, sc, output, chanIdx, numChan, e) ==
  LET sampleCount == U32ToInt(e.ns)
  IN  IF config.BitDepth = 16
        THEN writeMono16(output, sc.mixBufferU, chanIdx, numChan, sampleCount)
      ELSE IF config.BitDepth = 20
        THEN writeMono20(output, sc.mixBufferU, chanIdx, numChan, sampleCount)
      ELSE IF config.BitDepth = 24
        THEN writeMono24(output, sc.mixBufferU, chanIdx, numChan, sampleCount,
                         sc.shiftBuffer, e.bytesShifted)
      ELSE IF config.BitDepth = 32
        THEN writeMono32(output, sc.mixBufferU, chanIdx, numChan, sampleCount,
                         sc.shiftBuffer, e.bytesShifted)
      ELSE [out |-> output, panic |-> TRUE]

\* decodeCPE between the header hd and "Unmix and write output"
decodeCPEBody(config, sc, hd) ==
  LET compressed(c) ==
        dataResult(statusOf(c.err), errOf(c.err), c.b, c.sc, hd, hd.bytesShifted,
                   c.mixBits, c.mixRes, c.sampleEnd)
      escape(e) ==
        dataResult(IF e.panic THEN "panic" ELSE "ok", "none", e.b, e.sc, hd, 0,
                   0, 0, bitPosition(e.b))
  IN  IF hd.status # "ok" THEN dataResult(hd.status, hd.err, hd.b, sc, hd, 0, 0, 0, 0)
      ELSE IF hd.escapeFlag = 0
        THEN compressed(decodeCPECompressed(config, hd.b, sc, hd.chanBits,
                                            hd.bytesShifted, U32ToInt(hd.ns)))
        ELSE escape(decodeCPEEscape(hd.b, sc, config.BitDepth, U32ToInt(hd.ns)))

\* decodeCPE up to "Unmix and write output"
decodeCPEData(config, bits, sc, numSamples) ==
  decodeCPEBody(config, sc, elementHeader(config, bits, numSamples, 1))

\* decodeCPE from "Unmix and write output" on
decodeCPEWrite(config, sc, output, chanIdx, numChan, e) ==
  LET sampleCount == U32ToInt(e.ns)
  IN  IF config.BitDepth = 16
        THEN writeStereo16(output, sc.mixBufferU, sc.mixBufferV, chanIdx, numChan,
                           sampleCount, e.mixBits, e.mixRes)
      ELSE IF config.BitDepth = 20
        THEN writeStereo20(output, sc.mixBufferU, sc.mixBufferV, chanIdx, numChan,
                           sampleCount, e.mixBits, e.mixRes)
      ELSE IF config.BitDepth = 24
        THEN writeStereo24(output, sc.mixBufferU, sc.mixBufferV, chanIdx, numChan,
                           sampleCount, e.mixBits, e.mixRes, sc.shiftBuffer, e.bytesShifted)
      ELSE IF config.BitDepth = 32
        THEN writeStereo32(output, sc.mixBufferU, sc.mixBufferV, chanIdx, numChan,
                           sampleCount, e.mixBits, e.mixRes, sc.shiftBuffer, e.bytesShifted)
      ELSE [out |-> output, panic |-> TRUE]

\* decodeSCE as a whole: [status, err, ns, b, sc, out]
decodeSCE(config, bits, sc, output, chanIdx, numChan, numSamples) ==
  LET written(e, w) ==
        [status |-> IF w.panic THEN "panic" ELSE "ok", err |-> "none", ns |-> e.ns,
         b |-> e.b, sc |-> e.sc, out |-> w.out]
      data(e) ==
        IF e.status # "ok"
          THEN [status |-> e.status, err |-> e.err, ns |-> 0, b |-> e.b, sc |-> e.sc,
                out |-> output]
          ELSE written(e, decodeSCEWrite(config, e.sc, output, chanIdx, numChan, e))
  IN  data(decodeSCEData(config, bits, sc, numSamples))

\* decodeCPE as a whole
decodeCPE(config, bits, sc, output, chanIdx, numChan, numSamples) ==
  LET written(e, w) ==
        [status |-> IF w.panic THEN "panic" ELSE "ok", err |-> "none", ns |-> e.ns,
         b |-> e.b, sc |-> e.sc, out |-> w.out]
      data(e) ==
        IF e.status # "ok"
          THEN [status |-> e.status, err |-> e.err, ns |-> 0, b |-> e.b, sc |-> e.sc,
                out |-> output]
          ELSE written(e, decodeCPEWrite(config, e.sc, output, chanIdx, numChan, e))
  IN  data(decodeCPEData(config, bits, sc, numSamples))

\* skipFIL: [err, b]
skipFIL(bits) ==
  LET skipped(b2) ==
        IF pastEnd(b2) THEN [err |-> "errBitstreamOverrun", b |-> b2]
        ELSE [err |-> "ok", b |-> b2]
      skip(b1, count) == skipped(advance(b1, Mul32(count, 8)))
      extended(r1, r2) ==
        IF r2.panic THEN [err |-> "panic", b |-> bits]
        ELSE skip(r2.b, Int16(r1.val + r2.val - 1))
      counted(r1) ==
        IF r1.panic THEN [err |-> "panic", b |-> bits]
        ELSE IF r1.val = 15 THEN extended(r1, readSmall(r1.b, 8))
        ELSE skip(r1.b, r1.val)
  IN  counted(readSmall(bits, 4))

\* skipDSE: [err, b]
skipDSE(bits) ==
  LET skipped(b3) ==
        IF pastEnd(b3) THEN [err |-> "errBitstreamOverrun", b |-> b3]
        ELSE [err |-> "ok", b |-> b3]
      skip(r2, b1, count) ==
        skipped(advance(IF r2.val # 0 THEN byteAlign(b1) ELSE b1, Mul32(count, 8)))
      extended(r2, r3, r4) ==
        IF r4.panic THEN [err |-> "panic", b |-> bits]
        ELSE skip(r2, r4.b, (r3.val + r4.val) % 65536)
      counted(r1, r2, r3) ==
        IF r1.panic \/ r2.panic \/ r3.panic THEN [err |-> "panic", b |-> bits]
        ELSE IF r3.val = 255 THEN extended(r2, r3, readSmall(r3.b, 8))
        ELSE skip(r2, r3.b, r3.val)
      aligned(r1, r2) == counted(r1, r2, readSmall(r2.b, 8))
      instance(r1) == aligned(r1, readOne(r1.b))
  IN  instance(readSmall(bits, 4))

\* ---- DecodePacket ---------------------------------------------------------

\* A call of DecodePacket is a record of its locals: pc is "loop" at the head
\* of the element loop, "write" between the decoding of a channel element
\* into the scratch slices and its output switch, "returned" after a return
\* and "panicked" after a run-time panic.  ret is the byte slice returned
\* (retNil: it is nil), err the error ("none" when none).  The remaining fields
\* record what the call did: the tag and header of the element last read,
\* the bit position where it started, whether a decoded element took sample
\* data from beyond the packet, the explicit sample count of the last decoded
\* element that carried the partial-frame flag, how many channel
\* elements were decoded, and for each of them (elems) what its output switch
\* was handed.
NoHeader == [status |-> "none"]

newCall(d, packet) ==
  LET numSamples == d.config.FrameLength
      numChan    == d.config.NumChannels
      bps        == BytesPerSample(d.format.BitDepth)
  IN  [pc         |-> IF bps = 0 THEN "panicked" ELSE "loop",
       packet     |-> packet,
       bits       |-> newBitBuffer(packet),
       numSamples |-> numSamples,
       chanIdx    |-> 0,
       output     |-> makeSlice(U32ToInt(numSamples) * numChan * bps),
       pend       |-> NoHeader,
       ret        |-> <<>>,
       retNil     |-> TRUE,
       err        |-> "none",
       tag        |-> 0 - 1,
       hd         |-> NoHeader,
       elemStart  |-> 0,
       exhausted  |-> FALSE,
       explicitNs |-> 0 - 1,
       decoded    |-> 0,
       elems      |-> <<>>]

\* Faulty variant of returnErr: the output buffer filled so far is returned
\* together with the error.
returnErrWithOutput(c, err) ==
  [c EXCEPT !.pc = "returned", !.retNil = FALSE, !.err = err,
            !.ret = [i \in 1 .. sliceLen(c.output) |-> c.output[i - 1]]]

\* return nil, err
returnErr(c, err) ==
  [c EXCEPT !.pc = "returned", !.ret = <<>>, !.retNil = TRUE, !.err = err]

\* Faulty variant of returnDone: the whole worst-case buffer is returned.
returnDoneUntrimmed(d, c) ==
  [c EXCEPT !.pc = "returned", !.retNil = FALSE, !.err = "none",
            !.ret = [i \in 1 .. sliceLen(c.output) |-> c.output[i - 1]]]

\* the label done: return output[:actualSize], nil.  A slice bound beyond
\* the capacity of output panics.
returnDone(d, c) ==
  LET actualSize == U32ToInt(c.numSamples) * d.config.NumChannels
                      * BytesPerSample(d.format.BitDepth)
  IN  IF actualSize > sliceLen(c.output) THEN [c EXCEPT !.pc = "panicked"]
      ELSE [c EXCEPT !.pc     = "returned",
                     !.ret    = [i \in 1 .. actualSize |-> c.output[i - 1]],
                     !.retNil = FALSE,
                     !.err    = "none"]

\* Faulty variant of loopEnd: the loop goes on whatever chanIdx is.
loopEndUntested(d, c) == [c EXCEPT !.pc = "loop"]

\* the test that closes the loop body: break when chanIdx >= numChan
loopEnd(d, c) ==
  IF c.chanIdx >= d.config.NumChannels THEN returnDone(d, c) ELSE [c EXCEPT !.pc = "loop"]

\* The switch on the element tag t just read: c is the call before the
\* tag was read.
dispatch(d, c, sc, t) ==
  LET tag == t.val
      c0  == [c EXCEPT !.tag = t.val, !.elemStart = bitPosition(c.bits), !.hd = NoHeader,
                       !.bits = t.b]
      \* a channel element decoded into the scratch slices with outcome e
      element(c1, e) ==
        IF e.status = "panic" THEN [c |-> [c1 EXCEPT !.pc = "panicked"], sc |-> e.sc]
        ELSE IF e.status = "err" THEN [c |-> returnErr(c1, e.err), sc |-> e.sc]
        ELSE [c  |-> [c1 EXCEPT !.pc = "write", !.pend = e,
                                !.exhausted = @ \/ e.sampleEnd > c.bits.size * 8],
              sc |-> e.sc]
      decoded(e) == element([c0 EXCEPT !.bits = e.b, !.hd = e.hd], e)
      \* a DSE or FIL element skipped with outcome k
      skipped(c1, k) ==
        IF k.err = "panic" THEN [c |-> [c1 EXCEPT !.pc = "panicked"], sc |-> sc]
        ELSE IF k.err # "ok" THEN [c |-> returnErr(c1, k.err), sc |-> sc]
        ELSE [c |-> loopEnd(d, c1), sc |-> sc]
      skip(k) == skipped([c0 EXCEPT !.bits = k.b], k)
  IN  IF t.panic THEN [c |-> [c EXCEPT !.pc = "panicked"], sc |-> sc]
      ELSE IF tag = elemSCE \/ tag = elemLFE \/ (tag = elemCPE /\ c.chanIdx + 2 <= d.config.NumChannels)
        THEN decoded(IF tag = elemCPE
                       THEN decodeCPEData(d.config, t.b, sc, c.numSamples)
                       ELSE decodeSCEData(d.config, t.b, sc, c.numSamples))
      ELSE IF tag = elemCPE THEN [c |-> returnDone(d, c0), sc |-> sc]
      ELSE IF tag = elemCCE \/ tag = elemPCE
        THEN [c |-> returnErr(c0, "errUnsupportedElement"), sc |-> sc]
      ELSE IF tag = elemDSE \/ tag = elemFIL
        THEN skip(IF tag = elemDSE THEN skipDSE(t.b) ELSE skipFIL(t.b))
      ELSE [c |-> returnDone(d, [c0 EXCEPT !.bits = byteAlign(t.b)]), sc |-> sc]

\* Faulty variant of loopStep: the tag is read without the pastEnd test.
loopStepUnchecked(d, c, sc) ==
  dispatch(d, c, sc, readSmall(c.bits, 3))

\* One iteration of the element loop of DecodePacket up to the point where
\* a channel element has been decoded into the scratch slices (pc "write"),
\* or the whole iteration for the other tags.  Yields [c, sc].
loopStep(d, c, sc) ==
  IF pastEnd(c.bits) THEN [c |-> returnErr(c, "errBitstreamOverrun"), sc |-> sc]
  ELSE dispatch(d, c, sc, readSmall(c.bits, 3))

\* The rest of the iteration for a channel element: the output switch of
\* decodeSCE / decodeCPE, numSamples = ns, the advance of chanIdx and the
\* test that closes the loop body.
writeStep(d, c, sc) ==
  LET e == c.pend
      switched == [tag |-> c.tag, chanIdx |-> c.chanIdx, ns |-> e.ns,
                   bytesShifted |-> e.bytesShifted, mixBits |-> e.mixBits,
                   mixRes |-> e.mixRes, mixBufferU |-> sc.mixBufferU,
                   mixBufferV |-> sc.mixBufferV, shiftBuffer |-> sc.shiftBuffer]
      written(w) ==
        IF w.panic THEN [c |-> [c EXCEPT !.pc = "panicked", !.pend = NoHeader], sc |-> sc]
        ELSE [c  |-> loopEnd(d, [c EXCEPT !.output     = w.out,
                                          !.pend       = NoHeader,
                                          !.numSamples = e.ns,
                                          !.chanIdx    = @ + (IF c.tag = elemCPE THEN 2 ELSE 1),
                                          !.explicitNs = IF e.hd.partialFrame # 0
                                                           THEN e.ns ELSE @,
                                          !.decoded    = @ + 1,
                                          !.elems      = Append(@, switched)]),
              sc |-> sc]
  IN  written(IF c.tag = elemCPE
                THEN decodeCPEWrite(d.config, sc, c.output, c.chanIdx, d.config.NumChannels, e)
                ELSE decodeSCEWrite(d.config, sc, c.output, c.chanIdx, d.config.NumChannels, e))

\* one step of a running call
callStep(d, c, sc) ==
  IF c.pc = "loop" THEN loopStep(d, c, sc)
  ELSE IF c.pc = "write" THEN writeStep(d, c, sc)
  ELSE [c |-> c, sc |-> sc]

RECURSIVE runCall(_, _, _)
runCall(d, c, sc) ==
  LET next(r) == runCall(d, r.c, r.sc)
  IN  IF c.pc \notin {"loop", "write"} THEN [c |-> c, sc |-> sc]
      ELSE next(callStep(d, c, sc))

\* DecodePacket(packet) on a Decoder d whose scratch slices hold sc: the
\* finished call and the scratch slices it leaves
DecodePacket(d, sc, packet) == runCall(d, newCall(d, packet), sc)

\* what the caller of DecodePacket observes
outcome(c) == [pc |-> c.pc, ret |-> c.ret, retNil |-> c.retNil, err |-> c.err]

\* ---- ParseConfig (config.go) ----------------------------------------------

configSize == 24

\* Config{}
zeroConfig ==
  [FrameLength |-> 0, BitDepth |-> 0, NumChannels |-> 0, PB |-> 0, MB |-> 0, KB |-> 0,
   MaxRun |-> 0, MaxFrameBytes |-> 0, AvgBitRate |-> 0, SampleRate |-> 0]

\* data[n:] of a byte slice held as a sequence (data[i] is at index i + 1)
sliceFrom(data, n) == SubSeq(data, n + 1, Len(data))

\* len(data) >= 12 && data[4..7] == the four characters of an atom type
hasAtom(data, t) ==
  /\ Len(data) >= 12
  /\ data[5] = t[1] /\ data[6] = t[2] /\ data[7] = t[3] /\ data[8] = t[4]

\* the atom types 'frma' and 'alac' as character codes
frma == <<102, 114, 109, 97>>

alac == <<97, 108, 97, 99>>

\* binary.BigEndian.Uint32(data[o:o+4]) as a 32-bit word
beUint32(data, o) == Mk32(data[o + 1] * 256 + data[o + 2], data[o + 3] * 256 + data[o + 4])

\* binary.BigEndian.Uint16(data[o:o+2])
beUint16(data, o) == data[o + 1] * 256 + data[o + 2]

\* Faulty variant of ParseConfig: the 'alac' atom is looked for in front of
\* the 'frma' atom, and the multi-byte fields are read little-endian.
ParseConfigSwapped(cookie) ==
  LET d1   == IF hasAtom(cookie, alac) THEN sliceFrom(cookie, 12) ELSE cookie
      data == IF hasAtom(d1, frma) THEN sliceFrom(d1, 12) ELSE d1
  IN  IF Len(data) < configSize
        THEN [config |-> zeroConfig, err |-> "errInvalidCookie", cookie |-> cookie]
      ELSE IF data[5] > 0
        THEN [config |-> zeroConfig, err |-> "errUnsupportedVersion", cookie |-> cookie]
      ELSE [config |-> [FrameLength   |-> beUint32(data, 0),
                        BitDepth      |-> data[6],
                        PB            |-> data[7],
                        MB            |-> data[8],
                        KB            |-> data[9],
                        NumChannels   |-> data[10],
                        MaxRun        |-> data[12] * 256 + data[11],
                        MaxFrameBytes |-> beUint32(data, 12),
                        AvgBitRate    |-> beUint32(data, 16),
                        SampleRate    |-> beUint32(data, 20)],
            err    |-> "none",
            cookie |-> cookie]

\* ParseConfig(cookie): the Config, the error and the bytes of the cookie
\* slice when the function returns
ParseConfig(cookie) ==
  LET d1   == IF hasAtom(cookie, frma) THEN sliceFrom(cookie, 12) ELSE cookie
      data == IF hasAtom(d1, alac) THEN sliceFrom(d1, 12) ELSE d1
  IN  IF Len(data) < configSize
        THEN [config |-> zeroConfig, err |-> "errInvalidCookie", cookie |-> cookie]
      ELSE IF data[5] > 0
        THEN [config |-> zeroConfig, err |-> "errUnsupportedVersion", cookie |-> cookie]
      ELSE [config |-> [FrameLength   |-> beUint32(data, 0),
                        BitDepth      |-> data[6],
                        PB            |-> data[7],
                        MB            |-> data[8],
                        KB            |-> data[9],
                        NumChannels   |-> data[10],
                        MaxRun        |-> beUint16(data, 10),
                        MaxFrameBytes |-> beUint32(data, 12),
                        AvgBitRate    |-> beUint32(data, 16),
                        SampleRate    |-> beUint32(data, 20)],
            err    |-> "none",
            cookie |-> cookie]

\* ------------------------------------------------------------------------
\* Inputs: configurations, packets and cookies
\* ------------------------------------------------------------------------

\* A packet is written as a sequence of bit fields <<value, width>>, most
\* significant bit first, and packed into bytes; the last byte is filled
\* with zero bits.
Bits(v, w) == [i \in 1 .. w |-> (v \div Pow2(w - i)) % 2]

RECURSIVE FieldBits(_)
FieldBits(fs) ==
  IF fs = <<>> THEN <<>> ELSE Bits(Head(fs)[1], Head(fs)[2]) \o FieldBits(Tail(fs))

Pack(fs) ==
  LET bs     == FieldBits(fs)
      bit(k) == IF k <= Len(bs) THEN bs[k] ELSE 0
  IN  [n \in 1 .. ((Len(bs) + 7) \div 8) |->
         bit(8 * n - 7) * 128 + bit(8 * n - 6) * 64 + bit(8 * n - 5) * 32 + bit(8 * n - 4) * 16
         + bit(8 * n - 3) * 8 + bit(8 * n - 2) * 4 + bit(8 * n - 1) * 2 + bit(8 * n)]

\* the first n bytes of a packet
Truncate(p, n) == SubSeq(p, 1, MinOf(n, Len(p)))

\* element tag, instance tag, 12 reserved bits and the 4-bit header
\* (partial-frame flag, bytes shifted, escape flag) of a channel element
Header(tag, reserved, hb) == <<<<tag, 3>>, <<0, 4>>, <<reserved, 12>>, <<hb, 4>>>>

\* the explicit 32-bit sample count that follows a partial-frame flag
Count(n) == <<<<0, 16>>, <<n, 16>>>>

\* fields of one width
Raw(vals, w) == [i \in 1 .. Len(vals) |-> <<vals[i], w>>]

\* mode / denShift and pbFactor / numActive of one channel, then the
\* coefficients
Pred(mode, denShift, pbFactor, coefs) ==
  <<<<mode * 16 + denShift, 8>>, <<pbFactor * 32 + Len(coefs), 8>>>> \o Raw(coefs, 16)

\* n bytes of zero bits
Zeros(n) == [i \in 1 .. n |-> <<0, 8>>]

\* an escape (uncompressed) element: header with the escape flag, then raw
\* samples of w bits
Escape(tag, vals, w) == Header(tag, 0, 1) \o Raw(vals, w)

\* an escape element with the partial-frame flag and n samples of 16 bits
PartialEscape(n) ==
  Header(elemSCE, 0, 9) \o Count(n) \o Raw(SubSeq(<<1, 65535, 258, 7>>, 1, n), 16)

\* a compressed element: header hb, optional sample count, mixBits and
\* mixRes, predictor parameters, the out-of-band shift bytes and an entropy
\* payload that starts with byte b
Compressed(tag, hb, count, mix, preds, shiftBytes, b) ==
  Header(tag, 0, hb) \o count \o Raw(mix, 8) \o preds \o Raw(shiftBytes, 8)
    \o <<<<b, 8>>>> \o Zeros(3)

\* data stream element: instance tag, alignment flag, byte count, data
DSE(align, n) == <<<<elemDSE, 3>>, <<0, 4>>, <<align, 1>>, <<n, 8>>>> \o Raw([i \in 1 .. n |-> 99], 8)

\* fill element: byte count n < 15, data
FIL(n) == <<<<elemFIL, 3>>, <<n, 4>>>> \o Raw([i \in 1 .. n |-> 99], 8)

\* fill element with the extended count 15 + e - 1 and no data behind it
LongFIL(e) == <<<<elemFIL, 3>>, <<15, 4>>, <<e, 8>>>>

END == <<<<elemEND, 3>>>>

S16 == <<1, 65535, 258>>

S24 == <<1, 16777215>>

\* escape elements whose header also carries a bytes-shifted value of 1 or 2
ShiftedEscapes ==
  {Header(elemSCE, 0, 3) \o Raw(S16, 16), Header(elemSCE, 0, 5) \o Raw(S24, 24),
   Header(elemCPE, 0, 3) \o Raw(<<1, 65535, 258, 32768, 7, 9>>, 16),
   Header(elemCPE, 0, 5) \o Raw(<<1, 16777215, 258, 8388608>>, 24)}

\* packets of one element
SingleElements ==
  {Escape(elemSCE, S16, 16), Escape(elemLFE, <<32767, 32768, 0>>, 16),
   Escape(elemSCE, S24, 24), Escape(elemSCE, <<1, 255>>, 8),
   Escape(elemCPE, <<1, 65535, 258, 32768, 7, 9>>, 16),
   Escape(elemCPE, <<1, 16777215, 258, 8388608>>, 24)}
  \cup {PartialEscape(n) : n \in {0, 1, 2, 4}}
  \cup ShiftedEscapes
  \cup {Compressed(elemSCE, 0, <<>>, <<0, 0>>, Pred(c[1], 4, 4, c[2]), <<>>, c[3]) :
          c \in {<<0, <<>>, 0>>, <<0, <<>>, 235>>, <<0, <<160>>, 196>>, <<1, <<160>>, 235>>,
                 <<0, <<160, 65436>>, 196>>, <<0, <<1, 2, 3, 4>>, 0>>, <<0, <<>>, 12>>}}
  \cup {Compressed(elemSCE, 8, Count(n), <<0, 0>>, Pred(0, 4, 4, <<160, 65436>>), <<>>, 196) :
          n \in {1, 2, 4}}
  \cup {Compressed(elemSCE, 2, <<>>, <<0, 0>>, Pred(0, 4, 4, <<>>), <<171, 205>>, 196),
        Compressed(elemSCE, 4, <<>>, <<0, 0>>, Pred(0, 4, 4, <<160>>), <<171, 205, 18, 52>>, 12),
        Compressed(elemSCE, 4, <<>>, <<0, 0>>, Pred(0, 4, 4, <<>>), <<171, 205, 18, 52>>, 196),
        Compressed(elemSCE, 10, Count(1000), <<0, 0>>, Pred(0, 4, 4, <<>>), <<>>, 0),
        Compressed(elemCPE, 0, <<>>, <<2, 1>>, Pred(0, 4, 4, <<>>) \o Pred(0, 4, 4, <<160>>),
                   <<>>, 196),
        Compressed(elemCPE, 2, <<>>, <<2, 255>>, Pred(0, 4, 4, <<>>) \o Pred(1, 4, 4, <<>>),
                   <<171, 205, 18, 52>>, 235),
        Compressed(elemCPE, 8, Count(1), <<0, 0>>, Pred(0, 4, 4, <<>>) \o Pred(0, 4, 4, <<>>),
                   <<>>, 12)}
  \cup {Header(h[1], h[2], h[3]) \o Zeros(2) :
          h \in {<<elemSCE, 1, 1>>, <<elemSCE, 2048, 0>>, <<elemSCE, 0, 6>>, <<elemLFE, 0, 7>>,
                 <<elemSCE, 5, 6>>, <<elemSCE, 0, 15>>, <<elemCPE, 1, 1>>, <<elemCPE, 0, 7>>,
                 <<elemCPE, 5, 7>>}}
  \cup {<<<<elemCCE, 3>>>> \o Zeros(1), <<<<elemPCE, 3>>>> \o Zeros(1), END, <<>>,
        LongFIL(200), DSE(0, 2), <<<<elemDSE, 3>>, <<0, 4>>, <<0, 1>>, <<255, 8>>, <<0, 8>>>>}

\* packets of two or three elements
MultiElements ==
  {DSE(1, 1) \o Escape(elemSCE, S16, 16), FIL(1) \o Escape(elemSCE, S16, 16),
   LongFIL(1) \o Zeros(15) \o Escape(elemSCE, S24, 24),
   Escape(elemSCE, S16, 16) \o END,
   Escape(elemSCE, S16, 16) \o Escape(elemLFE, <<7, 8, 9>>, 16),
   Escape(elemSCE, S24, 24) \o Escape(elemSCE, <<5, 6>>, 24),
   Escape(elemSCE, S16, 16) \o Header(elemSCE, 1, 1) \o Zeros(2),
   Escape(elemSCE, S16, 16) \o Header(elemSCE, 0, 7) \o Zeros(2),
   Escape(elemSCE, S16, 16) \o <<<<elemCCE, 3>>>> \o Zeros(1),
   Escape(elemSCE, S16, 16) \o Header(elemCPE, 1, 1) \o Zeros(2),
   Escape(elemSCE, S16, 16) \o LongFIL(200),
   Escape(elemSCE, S16, 16) \o <<<<0, 1>>>>,
   PartialEscape(1) \o Escape(elemSCE, <<9>>, 16),
   PartialEscape(2) \o Compressed(elemSCE, 0, <<>>, <<0, 0>>, Pred(0, 4, 4, <<>>), <<>>, 196),
   Compressed(elemSCE, 0, <<>>, <<0, 0>>, Pred(0, 4, 4, <<160>>), <<>>, 196)
     \o Compressed(elemSCE, 0, <<>>, <<0, 0>>, Pred(0, 4, 4, <<>>), <<>>, 7)}

\* packets cut to fewer bytes: the field sequence and the number of bytes
\* removed from the end
Truncations ==
  ({Escape(elemSCE, S16, 16), Escape(elemCPE, <<1, 16777215, 258, 8388608>>, 24)}
     \X {1, 2, 5})
  \cup ({Compressed(elemSCE, 0, <<>>, <<0, 0>>, Pred(0, 4, 4, <<160>>), <<>>, 196)} \X {3, 4, 6})
  \cup ({Escape(elemSCE, S16, 16) \o Escape(elemLFE, <<7, 8, 9>>, 16)} \X {3, 6})

Packets ==
  {Pack(fs) : fs \in SingleElements \cup MultiElements}
  \cup {Truncate(Pack(t[1]), Len(Pack(t[1])) - t[2]) : t \in Truncations}

\* a Config with the encoder's usual tuning (pb 40, mb 10, kb 14, maxRun 255)
MkConfig(depth, channels, frameLength) ==
  [FrameLength |-> frameLength, BitDepth |-> depth, NumChannels |-> channels,
   PB |-> 40, MB |-> 10, KB |-> 14, MaxRun |-> 255,
   MaxFrameBytes |-> 0, AvgBitRate |-> 0, SampleRate |-> 44100]

\* the configurations a Decoder is constructed from: bit depth, channels and
\* frame length
Configs ==
  {MkConfig(16, 1, 3), MkConfig(16, 2, 3), MkConfig(24, 1, 2), MkConfig(24, 2, 2),
   MkConfig(8, 1, 2), MkConfig(12, 1, 2), MkConfig(7, 1, 2), MkConfig(0, 2, 3),
   MkConfig(20, 1, 2), MkConfig(32, 2, 1)}

\* ------------------------------------------------------------------------
\* State
\* ------------------------------------------------------------------------

\* the number of DecodePacket calls made on one Decoder
MaxCalls == 2

VARIABLES
  heap,      \* the slices that were allocated: address -> contents
  decoders,  \* the Decoder instances constructed so far
  ctor,      \* config and error of the NewDecoder calls made
  calls,     \* per Decoder: its call of DecodePacket, running or finished
  ncalls,    \* per Decoder: the number of calls of DecodePacket begun
  cookie,    \* the magic cookie handed to ParseConfig
  parsed,    \* the results of the ParseConfig calls made on the cookie
  pcm,       \* the arguments and the result of a call of a write function of matrix.go
  ag,        \* a call of dynDecomp: its arguments, the variables of its loop, its result
  pr,        \* calls of unpcBlock on the same arguments, and one call run sample by sample
  cur        \* a bit cursor, a snapshot of it, and the last operation on them

vars == <<heap, decoders, ctor, calls, ncalls, cookie, parsed, pcm, ag, pr, cur>>

\* a Decoder on which DecodePacket was not called yet
NoCall == [pc |-> "idle"]

\* no write function was called
NoWrite == [pc |-> "none"]

\* dynDecomp was not called
NoDecomp == [pc |-> "none"]

\* unpcBlock was not called
NoPredict == [pc |-> "none"]

\* no cursor was made
NoCursor == [pc |-> "none"]

\* the scratch slices of Decoder d as the heap holds them
scratchOf(h, d) ==
  [mixBufferU  |-> h[d.mixBufferU],
   mixBufferV  |-> h[d.mixBufferV],
   predictor   |-> h[d.predictor],
   shiftBuffer |-> h[d.shiftBuffer]]

\* the heap after the scratch slices of Decoder d were written
storeScratch(h, d, sc) ==
  [a \in DOMAIN h |->
     IF a = d.shiftBuffer THEN sc.shiftBuffer
     ELSE IF a = d.predictor THEN sc.predictor
     ELSE IF a = d.mixBufferV THEN sc.mixBufferV
     ELSE IF a = d.mixBufferU THEN sc.mixBufferU
     ELSE h[a]]

\* the state after construction of nothing: no Decoder, no cookie
InitDecode ==
  /\ heap = <<>>
  /\ decoders = <<>>
  /\ ctor = <<>>
  /\ calls = <<>>
  /\ ncalls = <<>>
  /\ cookie = <<>>
  /\ parsed = <<>>
  /\ pcm = NoWrite
  /\ ag = NoDecomp
  /\ pr = NoPredict
  /\ cur = NoCursor

\* NewDecoder(config) as long as fewer than limit Decoders exist
Construct(config, limit) ==
  LET nd == NewDecoder(config, Len(heap) + 1)
      sc == newScratch(U32ToInt(config.FrameLength))
  IN  /\ Len(decoders) < limit
      /\ ctor' = Append(ctor, [config |-> config, err |-> nd.err])
      /\ IF nd.err = "none"
           THEN /\ decoders' = Append(decoders, nd.dec)
                /\ heap' = heap \o <<sc.mixBufferU, sc.mixBufferV, sc.predictor, sc.shiftBuffer>>
                /\ calls' = Append(calls, NoCall)
                /\ ncalls' = Append(ncalls, 0)
           ELSE UNCHANGED <<decoders, heap, calls, ncalls>>
      /\ UNCHANGED <<cookie, parsed, pcm, ag, pr, cur>>

\* d.DecodePacket(packet) on Decoder i, start to end.  The call record is
\* kept together with the scratch slices the call started from (sc0) and
\* with the note whether another call took a step while this one stood
\* between the decoding of an element and its output (overlapped).
Decode(i, packet) ==
  LET d   == decoders[i]
      sc0 == scratchOf(heap, d)
      finish(r) ==
        /\ calls' = [calls EXCEPT ![i] = [sc0 |-> sc0, overlapped |-> FALSE] @@ r.c]
        /\ heap' = storeScratch(heap, d, r.sc)
  IN  /\ ncalls[i] < MaxCalls
      /\ finish(DecodePacket(d, sc0, packet))
      /\ ncalls' = [ncalls EXCEPT ![i] = @ + 1]
      /\ UNCHANGED <<decoders, ctor, cookie, parsed, pcm, ag, pr, cur>>

\* One program: a Decoder is constructed and packets are decoded one after
\* the other.
Next ==
  \/ \E config \in Configs : ctor = <<>> /\ Construct(config, 1)
  \/ \E i \in DOMAIN decoders, packet \in Packets : Decode(i, packet)

Spec == InitDecode /\ [][Next]_vars

\* ---- two Decoders, calls interleaved ----------------------------------------

ConcConfigs == {MkConfig(16, 1, 3), MkConfig(16, 2, 3)}

ConcPackets ==
  {Pack(fs) : fs \in
     {Escape(elemSCE, S16, 16),
      PartialEscape(1),
      Compressed(elemSCE, 0, <<>>, <<0, 0>>, Pred(0, 4, 4, <<160>>), <<>>, 196),
      Escape(elemCPE, <<1, 65535, 258, 32768, 7, 9>>, 16),
      Escape(elemSCE, S16, 16) \o Escape(elemLFE, <<7, 8, 9>>, 16),
      Escape(elemSCE, S16, 16) \o Header(elemSCE, 1, 1) \o Zeros(2)}}

\* the entry into DecodePacket(packet) on Decoder i: the locals are set up
Begin(i, packet) ==
  LET d == decoders[i]
  IN  /\ calls[i].pc \in {"idle", "returned", "panicked"}
      /\ ncalls[i] < MaxCalls
      /\ calls' = [calls EXCEPT ![i] = [sc0 |-> scratchOf(heap, d), overlapped |-> FALSE]
                                         @@ newCall(d, packet)]
      /\ ncalls' = [ncalls EXCEPT ![i] = @ + 1]
      /\ UNCHANGED <<heap, decoders, ctor, cookie, parsed, pcm, ag, pr, cur>>

\* one step of the running call on Decoder i
Step(i) ==
  LET d == decoders[i]
      finish(r) ==
        /\ calls' = [k \in DOMAIN calls |->
                       IF k = i THEN r.c
                       ELSE IF calls[k].pc = "write" THEN [calls[k] EXCEPT !.overlapped = TRUE]
                       ELSE calls[k]]
        /\ heap' = storeScratch(heap, d, r.sc)
  IN  /\ calls[i].pc \in {"loop", "write"}
      /\ finish(callStep(d, calls[i], scratchOf(heap, d)))
      /\ UNCHANGED <<decoders, ctor, ncalls, cookie, parsed, pcm, ag, pr, cur>>

NextConc ==
  \/ \E config \in ConcConfigs : Construct(config, 2)
  \/ \E i \in DOMAIN decoders, packet \in ConcPackets : Begin(i, packet)
  \/ \E i \in DOMAIN decoders : Step(i)

SpecConc == InitDecode /\ [][NextConc]_vars

\* ---- one Decoder, the element loop step by step -----------------------------

NextLoop ==
  \/ \E config \in Configs : ctor = <<>> /\ Construct(config, 1)
  \/ \E i \in DOMAIN decoders, packet \in Packets : Begin(i, packet)
  \/ \E i \in DOMAIN decoders : Step(i)

SpecLoop == InitDecode /\ [][NextLoop]_vars

\* ---- ParseConfig on a cookie ------------------------------------------------

\* the number of ParseConfig calls made on one cookie
MaxParses == 2

\* [size:4][type:'frma'][format:'alac'] and [size:4][type:'alac'][version:4]
FrmaAtom == <<0, 0, 0, 12>> \o frma \o alac

AlacAtom == <<0, 0, 0, 36>> \o alac \o <<0, 0, 0, 0>>

\* an ALACSpecificConfig record of 24 bytes with the given version byte,
\* followed by three more bytes; k varies the contents
ConfigRecord(version, k) ==
  [i \in 1 .. 27 |-> IF i = 5 THEN version ELSE (i * k + 16) % 256]

\* a record whose bytes 4..7 are t
RecordWith(t) == [i \in 1 .. 24 |-> IF i \in 5 .. 8 THEN t[i - 4] ELSE i]

Cookies ==
  {w \o r :
     w \in {<<>>, FrmaAtom, AlacAtom, FrmaAtom \o AlacAtom, AlacAtom \o FrmaAtom,
            FrmaAtom \o FrmaAtom, AlacAtom \o AlacAtom},
     r \in {Truncate(ConfigRecord(c[1], c[2]), c[3]) :
              c \in {0, 1, 255} \X {1, 7, 37} \X {0, 11, 12, 23, 24, 27}}
           \cup {RecordWith(frma), RecordWith(alac), RecordWith(<<0, 114, 109, 97>>),
                 RecordWith(<<0, 108, 97, 99>>)}}

InitParse ==
  /\ cookie \in Cookies
  /\ parsed = <<>>
  /\ heap = <<>>
  /\ decoders = <<>>
  /\ ctor = <<>>
  /\ calls = <<>>
  /\ ncalls = <<>>
  /\ pcm = NoWrite
  /\ ag = NoDecomp
  /\ pr = NoPredict
  /\ cur = NoCursor

\* ParseConfig(cookie): the bytes handed in are kept with the result
Parse ==
  LET r == ParseConfig(cookie)
  IN  /\ Len(parsed) < MaxParses
      /\ parsed' = Append(parsed, [input |-> cookie, config |-> r.config, err |-> r.err])
      /\ cookie' = r.cookie
      /\ UNCHANGED <<heap, decoders, ctor, calls, ncalls, pcm, ag, pr, cur>>

NextParse == Parse

SpecParse == InitParse /\ [][NextParse]_vars

\* ---- the output switch of decodeCPE on given scratch contents ---------------

\* a slice with the elements of the sequence q
toSlice(q) == [i \in 0 .. (Len(q) - 1) |-> q[i + 1]]

\* the contents of mixBufferU and mixBufferV: two samples per channel
MixSamples ==
  {<<<<10, 20>>, <<2, 4>>>>, <<<<0 - 5, 32767>>, <<3, 0 - 32768>>>>,
   <<<<70000, 0 - 70001>>, <<0 - 8388608, 8388607>>>>,
   <<<<2147483647, 0 - 2147483647>>, <<1, 0 - 2>>>>,
   <<<<1000, 0 - 1>>, <<2147483647, (0 - 2147483647) - 1>>>>,
   <<<<0, 0>>, <<0, 0>>>>}

\* the mixBits and mixRes bytes of the element
MixBitsBytes == {0, 1, 2, 8, 31, 40}

MixResBytes == {0, 1, 2, 127, 128, 255}

\* the arguments of the output switch: bit depth, scratch contents, the two
\* mix bytes as the packet holds them, bytes shifted, and the channel index
\* of the pair in a frame of chanIdx + 2 channels
WriteArgs ==
  {[pc           |-> "args",
    depth        |-> depth,
    mixBufferU   |-> toSlice(uv[1]),
    mixBufferV   |-> toSlice(uv[2]),
    mix          |-> <<mb, mr>>,
    bytesShifted |-> bs,
    shiftBuffer  |-> toSlice(<<171, 205, 18, 52>>),
    chanIdx      |-> ci,
    numChan      |-> ci + 2,
    out          |-> makeSlice(2 * (ci + 2) * BytesPerSample(depth)),
    mixBits      |-> 0,
    mixRes       |-> 0,
    panic        |-> FALSE] :
     depth \in {16, 20, 24, 32}, uv \in MixSamples, mb \in MixBitsBytes, mr \in MixResBytes,
     bs \in {0, 1}, ci \in {0, 1}}

InitMatrix ==
  /\ pcm \in WriteArgs
  /\ heap = <<>>
  /\ decoders = <<>>
  /\ ctor = <<>>
  /\ calls = <<>>
  /\ ncalls = <<>>
  /\ cookie = <<>>
  /\ parsed = <<>>
  /\ ag = NoDecomp
  /\ pr = NoPredict
  /\ cur = NoCursor

\* mixBits and mixRes are read as decodeCPECompressed reads them, and the
\* output switch of decodeCPE writes the two samples of the pair
WriteStereo ==
  LET mix == readMix(newBitBuffer(pcm.mix))
      sc  == [mixBufferU |-> pcm.mixBufferU, mixBufferV |-> pcm.mixBufferV,
              predictor |-> makeSlice(2), shiftBuffer |-> pcm.shiftBuffer]
      e   == [ns |-> 2, mixBits |-> mix.mixBits, mixRes |-> mix.mixRes,
              bytesShifted |-> pcm.bytesShifted]
      done(w) ==
        pcm' = [pcm EXCEPT !.pc = "done", !.out = w.out, !.panic = w.panic \/ mix.panic,
                           !.mixBits = mix.mixBits, !.mixRes = mix.mixRes]
  IN  /\ pcm.pc = "args"
      /\ done(decodeCPEWrite(MkConfig(pcm.depth, pcm.numChan, 2), sc, pcm.out, pcm.chanIdx,
                             pcm.numChan, e))
      /\ UNCHANGED <<heap, decoders, ctor, calls, ncalls, cookie, parsed, ag, pr, cur>>

NextMatrix == WriteStereo

SpecMatrix == InitMatrix /\ [][NextMatrix]_vars

\* ---- dynDecomp on given payloads, one loop iteration at a time --------------

\* the codeword of a sample when k = 1: n one bits and a zero bit
Unary(n) == <<<<Pow2(n + 1) - 2, n + 1>>>>

\* the escape codeword of a sample or of a zero run: nine one bits and the
\* value in 16 bits; for samples of 32 bits the value in two halves
Escaped16(n) == <<<<511, 9>>, <<n, 16>>>>

Escaped32(hi, lo) == <<<<511, 9>>, <<hi, 16>>, <<lo, 16>>>>

\* the codeword of a zero run of n <= 14 samples behind the first sample of
\* a block (k = 4, m = 15): a zero bit, and n + 1 in 4 bits or 3 zero bits
Run4(n) == IF n = 0 THEN <<<<0, 4>>>> ELSE <<<<0, 1>>, <<n + 1, 4>>>>

\* entropy payloads for samples of at most 16 bits
Payloads16 ==
  {Unary(3) \o Unary(2) \o Unary(2) \o Unary(1),
   Unary(0) \o Run4(2) \o Unary(0) \o Unary(2),
   Unary(1) \o Run4(0) \o Unary(1) \o Unary(5),
   Unary(0) \o Run4(5),
   Unary(0) \o Escaped16(3) \o Unary(1) \o Unary(4),
   Escaped16(65535) \o Zeros(1),
   Escaped16(2000),
   <<<<255, 8>>>>,
   <<>>}

\* entropy payloads for samples of 32 bits
Payloads32 ==
  {Escaped32(1, 0) \o Zeros(1),
   Escaped32(32768, 1) \o Unary(3) \o Unary(3),
   Unary(0) \o Run4(1) \o Escaped32(65535, 65535) \o Unary(3)}

\* the bit offsets of the payload in its packet
StartBits == {0, 5, 16}

\* what remained in predCoefs from earlier use
Stale == 77

\* the values the leading-zero helper is applied to
Words == {0, 1, 2, 3, 255, 65536, 2147483647, 0 - 1, 0 - 65536, (0 - 2147483647) - 1}

\* a call dynDecomp(params, bitBuf, predCoefs, numSamples, maxSize) at the
\* head of its loop: the payload stands start bits into the packet, params
\* are set as decodeSCECompressed sets them (mb 10, pb 40, kb from the
\* configuration), and predCoefs is two longer than numSamples
DecompCall(payload, start, numSamples, maxSize, maxrun, kb) ==
  LET bitBuf == advance(newBitBuffer(Pack(<<<<0, start>>>> \o payload)), start)
      params == setAGParams(10, 40, kb, numSamples, numSamples, maxrun)
      st0    == dynDecompEntry(params, bitBuf, [i \in 0 .. (numSamples + 1) |-> Stale])
  IN  [pc         |-> "loop",
       params     |-> params,
       bitBuf     |-> bitBuf,
       numSamples |-> numSamples,
       maxSize    |-> maxSize,
       predLen    |-> numSamples + 2,
       prev       |-> st0,
       st         |-> st0,
       steps      |-> 0,
       err        |-> "none",
       b          |-> bitBuf,
       leadOf     |-> <<>>]

DecompCalls ==
  {DecompCall(payload, start, numSamples, 16, maxrun, 14) :
     payload \in Payloads16, start \in StartBits, numSamples \in {1, 3, 4},
     maxrun \in {255, 2}}
  \cup {DecompCall(payload, start, numSamples, 32, 255, 14) :
          payload \in Payloads32, start \in StartBits, numSamples \in {1, 3, 4}}
  \cup {DecompCall(Unary(0) \o Escaped16(300) \o Unary(0), 5, 302, 16, 255, 14),
        DecompCall(<<>>, 16, 16, 16, 255, 14),
        DecompCall(<<<<511, 9>>>>, 7, 2, 16, 255, 14)}
  \cup {DecompCall(Escaped16(2000) \o <<<<2, 2>>, <<5, 4>>>>, start, 2, 16, 255, 4) :
          start \in StartBits}

InitEntropy ==
  /\ ag \in DecompCalls
  /\ heap = <<>>
  /\ decoders = <<>>
  /\ ctor = <<>>
  /\ calls = <<>>
  /\ ncalls = <<>>
  /\ cookie = <<>>
  /\ parsed = <<>>
  /\ pcm = NoWrite
  /\ pr = NoPredict
  /\ cur = NoCursor

\* one iteration of the loop of dynDecomp; prev keeps the variables the
\* iteration started from
DecompStep ==
  /\ ag.pc = "loop"
  /\ ag.st.status = "run"
  /\ ag.st.count < ag.numSamples
  /\ ag' = [ag EXCEPT !.prev  = ag.st,
                      !.steps = @ + 1,
                      !.st    = dynDecompStep(ag.params, ag.bitBuf, ag.st, ag.numSamples,
                                              ag.maxSize, ag.bitBuf.size * 8, ag.predLen)]
  /\ UNCHANGED <<heap, decoders, ctor, calls, ncalls, cookie, parsed, pcm, pr, cur>>

\* the loop is left: dynDecomp returns
DecompReturn ==
  LET r == dynDecompReturn(ag.bitBuf, ag.st)
  IN  /\ ag.pc = "loop"
      /\ ~(ag.st.status = "run" /\ ag.st.count < ag.numSamples)
      /\ ag' = [ag EXCEPT !.pc = "returned", !.err = r.err, !.b = r.b]
      /\ UNCHANGED <<heap, decoders, ctor, calls, ncalls, cookie, parsed, pcm, pr, cur>>

\* lead(w) and lg3a(w) on a word w
Lead(w) ==
  /\ ag.pc = "returned"
  /\ ag.leadOf = <<>>
  /\ ag' = [ag EXCEPT !.leadOf = <<w, lead(w), lg3a(w)>>]
  /\ UNCHANGED <<heap, decoders, ctor, calls, ncalls, cookie, parsed, pcm, pr, cur>>

NextEntropy ==
  \/ DecompStep
  \/ DecompReturn
  \/ \E w \in Words : Lead(w)

SpecEntropy == InitEntropy /\ [][NextEntropy]_vars

\* ---- unpcBlock on given residuals -------------------------------------------

\* what the output slice held before the call
StaleOut == 0 - 7

ResidualBlocks ==
  {toSlice(<<100, 0 - 20, 5, 7, 0 - 3, 12, 0, 9, 0 - 40, 3, 25, 0 - 6>>),
   toSlice(<<40000, 30000, 0 - 5, 0, 70000, 0 - 70000, 1, 0 - 1, 300, 0 - 300, 2, 0>>),
   toSlice(<<1, 1, 1, 1, 1, 1, 1, 1, 1, 1, 1, 1>>),
   toSlice(<<0 - 5, 200, 0 - 200, 1000, 0 - 1000, 5000, 0 - 5000, 20000, 0 - 20000, 3, 0 - 3, 1>>)}

CoefBlocks ==
  {toSlice(<<160, 0 - 190, 170, 0 - 130, 80, 0 - 25, 7, 0 - 1>>),
   toSlice(<<32767, 0 - 32768, 32767, 0 - 32768, 32767, 0 - 32768, 32767, 0 - 32768>>),
   toSlice(<<0, 0, 0, 0, 0, 0, 0, 0>>)}

\* the first n coefficients of a block
firstCoefs(c, n) == [k \in 0 .. (n - 1) |-> c[k]]

\* no call was made yet
NoResult == [done |-> FALSE]

\* the memory unpcBlock starts from when the two slices are separate
predictMemory(pc1) ==
  [pc1 |-> pc1, out |-> [i \in DOMAIN pc1 |-> StaleOut], coefs |-> <<>>, panic |-> FALSE]

\* calls unpcBlock(pc1, out, num, coefs, numActive, chanBits, denShift) to be made
PredictCall(pc1, coefs, num, numActive, chanBits, denShift) ==
  [pc        |-> "called",
   pc1       |-> pc1,
   coefs     |-> coefs,
   num       |-> num,
   numActive |-> numActive,
   chanBits  |-> chanBits,
   denShift  |-> denShift,
   sep       |-> NoResult,
   inp       |-> NoResult,
   gen       |-> NoResult,
   j         |-> 0,
   mem       |-> [predictMemory(pc1) EXCEPT !.coefs = coefs],
   before    |-> [predictMemory(pc1) EXCEPT !.coefs = coefs],
   phase     |-> <<>>]

PredictCalls ==
  {PredictCall(pc1, firstCoefs(c, numActive), IF whole THEN sliceLen(pc1) ELSE 2, numActive,
               chanBits, denShift) :
     pc1 \in ResidualBlocks, c \in CoefBlocks, whole \in BOOLEAN,
     numActive \in {1, 2, 3, 4, 8}, chanBits \in {16, 24}, denShift \in {0, 9}}
  \cup {PredictCall(pc1, makeSlice(0), IF whole THEN sliceLen(pc1) ELSE 3, numActive,
                     chanBits, 0) :
          pc1 \in ResidualBlocks, whole \in BOOLEAN, numActive \in {0, numActiveDelta},
          chanBits \in {16, 24}}

InitPredict ==
  /\ pr \in PredictCalls
  /\ heap = <<>>
  /\ decoders = <<>>
  /\ ctor = <<>>
  /\ calls = <<>>
  /\ ncalls = <<>>
  /\ cookie = <<>>
  /\ parsed = <<>>
  /\ pcm = NoWrite
  /\ ag = NoDecomp
  /\ cur = NoCursor

\* unpcBlock with two separate slices
UnpcSeparate ==
  /\ pr.pc = "called"
  /\ pr.sep = NoResult
  /\ pr' = [pr EXCEPT !.sep = unpcBlock(pr.pc1, predictMemory(pr.pc1).out, FALSE, pr.num,
                                        pr.coefs, pr.numActive, pr.chanBits, pr.denShift)]
  /\ UNCHANGED <<heap, decoders, ctor, calls, ncalls, cookie, parsed, pcm, ag, cur>>

\* unpcBlock with the residual slice passed as output slice too
UnpcInPlace ==
  /\ pr.pc = "called"
  /\ pr.inp = NoResult
  /\ pr' = [pr EXCEPT !.inp = unpcBlock(pr.pc1, pr.pc1, TRUE, pr.num,
                                        pr.coefs, pr.numActive, pr.chanBits, pr.denShift)]
  /\ UNCHANGED <<heap, decoders, ctor, calls, ncalls, cookie, parsed, pcm, ag, cur>>

\* chanShift and denHalf of unpcBlock
chanShiftOf(chanBits) == Sub32(32, chanBits)

denHalfOf(denShift) == IF denShift > 0 THEN Shl32(1, denShift - 1) ELSE 0

\* out[0] = pc1[0], the warm-up, and then unpcBlockGeneral where unpcBlock
\* calls unpcBlock4 or unpcBlock8
UnpcGeneral ==
  LET mem1 == storeOut([predictMemory(pr.pc1) EXCEPT !.coefs = pr.coefs], FALSE, 0, pr.pc1[0])
      mem2 == warmUp(mem1, FALSE, 1, pr.numActive, chanShiftOf(pr.chanBits))
  IN  /\ pr.pc = "called"
      /\ pr.numActive \in {4, 8}
      /\ pr.gen = NoResult
      /\ pr' = [pr EXCEPT !.gen = unpcBlockGeneral(mem2, FALSE, pr.numActive + 1, pr.num,
                                                   pr.numActive, pr.numActive + 1,
                                                   chanShiftOf(pr.chanBits), pr.denShift,
                                                   denHalfOf(pr.denShift))]
      /\ UNCHANGED <<heap, decoders, ctor, calls, ncalls, cookie, parsed, pcm, ag, cur>>

\* the store of unpcBlock, or the iteration of its loops, that produces
\* out[j]: the name of the phase and the memory after it
sampleOf(mem, j, num, numActive, chanBits, denShift) ==
  IF j = 0
    THEN [phase |-> "first", mem |-> storeOut(mem, FALSE, 0, mem.pc1[0])]
  ELSE IF numActive = 0
    THEN [phase |-> "copy", mem |-> storeOut(mem, FALSE, j, mem.pc1[j])]
  ELSE IF numActive = numActiveDelta
    THEN [phase |-> "delta",
          mem   |-> deltaLoop(mem, FALSE, j, j + 1, mem.out[j - 1], chanShiftOf(chanBits))]
  ELSE IF j <= numActive
    THEN [phase |-> "warmup", mem |-> warmUp(mem, FALSE, j, j, chanShiftOf(chanBits))]
  ELSE [phase |-> "predict",
        mem   |-> unpcBlockGeneral(mem, FALSE, j, j + 1, numActive, numActive + 1,
                                   chanShiftOf(chanBits), denShift, denHalfOf(denShift))]

\* out[j] is produced when j < num, and by the warm-up whatever num is
samplesLeft(j, num, numActive) ==
  \/ j = 0
  \/ j < num
  \/ numActive \in 1 .. 30 /\ j <= numActive

\* unpcBlock on separate slices, one output sample at a time (the routines
\* for 4 and 8 coefficients keep state of their own and are not run so)
UnpcSample ==
  LET s == sampleOf(pr.mem, pr.j, pr.num, pr.numActive, pr.chanBits, pr.denShift)
  IN  /\ pr.pc = "called"
      /\ pr.numActive \notin {4, 8}
      /\ samplesLeft(pr.j, pr.num, pr.numActive)
      /\ pr' = [pr EXCEPT !.before = pr.mem, !.mem = s.mem, !.j = @ + 1,
                          !.phase = Append(@, s.phase)]
      /\ UNCHANGED <<heap, decoders, ctor, calls, ncalls, cookie, parsed, pcm, ag, cur>>

NextPredict ==
  \/ UnpcSeparate
  \/ UnpcInPlace
  \/ UnpcGeneral
  \/ UnpcSample

SpecPredict == InitPredict /\ [][NextPredict]_vars

\* ---- a bitBuffer and a copy of it, one operation at a time ------------------

\* the bytes handed to newBitBuffer
CursorData == {<<171, 205>>, <<90>>}

\* numBits of read, of readSmall and of advance (a uint32: 0 - 1 is 0xFFFFFFFF)
ReadBits == 0 .. 16

ReadSmallBits == 0 .. 8

AdvanceBits == {0, 3, 8, 13, 0 - 1}

\* numBits of the reads on the copy: shift = bytesShifted * 8
ShiftBits == {8, 16}

\* the operation that made the cursor
madeCursor == [name |-> "newBitBuffer", on |-> "primary", n |-> 0, val |-> 0, panic |-> FALSE]

InitCursor ==
  /\ \E data \in CursorData :
       cur = [pc |-> "cursor", data |-> data, bits |-> newBitBuffer(data), snap |-> NoCursor,
              op |-> madeCursor, before |-> newBitBuffer(data), snapBefore |-> NoCursor]
  /\ heap = <<>>
  /\ decoders = <<>>
  /\ ctor = <<>>
  /\ calls = <<>>
  /\ ncalls = <<>>
  /\ cookie = <<>>
  /\ parsed = <<>>
  /\ pcm = NoWrite
  /\ ag = NoDecomp
  /\ pr = NoPredict

\* the outcome of a method that returns nothing
moved(b) == [val |-> 0, b |-> b, panic |-> FALSE]

\* the method name(n) was called on the primary cursor with outcome r
onPrimary(name, n, r) ==
  /\ cur.pc = "cursor"
  /\ cur' = [cur EXCEPT !.pc = IF r.panic THEN "panicked" ELSE "cursor",
                        !.bits = r.b,
                        !.op = [name |-> name, on |-> "primary", n |-> n, val |-> r.val,
                                panic |-> r.panic],
                        !.before = cur.bits,
                        !.snapBefore = cur.snap]
  /\ UNCHANGED <<heap, decoders, ctor, calls, ncalls, cookie, parsed, pcm, ag, pr>>

CursorRead == \E n \in ReadBits : onPrimary("read", n, read(cur.bits, n))

CursorReadSmall == \E n \in ReadSmallBits : onPrimary("readSmall", n, readSmall(cur.bits, n))

CursorReadOne == onPrimary("readOne", 1, readOne(cur.bits))

\* bits.advance(n), from inside the padded buffer
CursorAdvance ==
  /\ cur.bits.pos < BufLen(cur.bits)
  /\ \E n \in AdvanceBits : onPrimary("advance", n, moved(advance(cur.bits, n)))

CursorByteAlign == onPrimary("byteAlign", 0, moved(byteAlign(cur.bits)))

\* shiftBits = bits.copy()
CursorCopy ==
  /\ cur.pc = "cursor"
  /\ cur.snap = NoCursor
  /\ cur' = [cur EXCEPT !.snap = copy(cur.bits),
                        !.op = [name |-> "copy", on |-> "primary", n |-> 0, val |-> 0,
                                panic |-> FALSE],
                        !.before = cur.bits,
                        !.snapBefore = cur.snap]
  /\ UNCHANGED <<heap, decoders, ctor, calls, ncalls, cookie, parsed, pcm, ag, pr>>

\* the outcome r of shiftBits.read(n)
onSnapshot(n, r) ==
  cur' = [cur EXCEPT !.pc = IF r.panic THEN "panicked" ELSE "cursor",
                     !.snap = r.b,
                     !.op = [name |-> "read", on |-> "snapshot", n |-> n, val |-> r.val,
                             panic |-> r.panic],
                     !.before = cur.bits,
                     !.snapBefore = cur.snap]

\* shiftBits.read(shift)
SnapshotRead ==
  /\ cur.pc = "cursor"
  /\ cur.snap # NoCursor
  /\ \E n \in ShiftBits : onSnapshot(n, read(cur.snap, n))
  /\ UNCHANGED <<heap, decoders, ctor, calls, ncalls, cookie, parsed, pcm, ag, pr>>

NextCursor ==
  \/ CursorRead
  \/ CursorReadSmall
  \/ CursorReadOne
  \/ CursorAdvance
  \/ CursorByteAlign
  \/ CursorCopy
  \/ SnapshotRead

SpecCursor == InitCursor /\ [][NextCursor]_vars

\* ---- a call of DecodePacket or of dynDecomp that is run to its end ------------

InitRun == InitDecode \/ InitEntropy

\* a Decoder is constructed and a call of DecodePacket on it runs one loop
\* iteration at a time, or a call of dynDecomp runs one loop iteration at
\* a time
NextRun ==
  \/ \E config \in Configs : ag = NoDecomp /\ ctor = <<>> /\ Construct(config, 1)
  \/ \E i \in DOMAIN decoders, packet \in Packets : ncalls[i] = 0 /\ Begin(i, packet)
  \/ \E i \in DOMAIN decoders : Step(i)
  \/ DecompStep
  \/ DecompReturn

\* the call of DecodePacket on the Decoder is in its loop
CallRunning == Len(calls) = 1 /\ calls[1].pc \in {"loop", "write"}

\* the call of dynDecomp is at the head of its loop with a sample to decode
DecompRunning ==
  ag # NoDecomp /\ ag.pc = "loop" /\ ag.st.status = "run" /\ ag.st.count < ag.numSamples

\* A call that was begun is run on: nothing but the call itself decides
\* when it ends.  This is weak fairness of Step, of DecompStep and of
\* DecompReturn; for the first two ENABLED is written out, an iteration
\* being enabled exactly while the call is in its loop.
SpecRun ==
  /\ InitRun
  /\ [][NextRun]_vars
  /\ ([]<>(~CallRunning) \/ []<><<\E i \in DOMAIN decoders : Step(i)>>_vars)
  /\ ([]<>(~DecompRunning) \/ []<><<DecompStep>>_vars)
  /\ WF_vars(DecompReturn)

\* ------------------------------------------------------------------------
\* Properties
\* ------------------------------------------------------------------------

SupportedDepths == {16, 20, 24, 32}

Returned(c) == c.pc = "returned"

Succeeded(c) == c.pc = "returned" /\ c.err = "none"

Failed(c) == c.pc = "returned" /\ c.err # "none"

Ended(c) == c.pc \in {"returned", "panicked"}

\* the w bits of packet p from bit position start on, as a number
RECURSIVE FieldAt(_, _, _)
FieldAt(p, start, w) ==
  IF w = 0 THEN 0
  ELSE LET k   == start + w - 1
           bit == IF k \div 8 < Len(p) THEN (p[(k \div 8) + 1] \div Pow2(7 - (k % 8))) % 2 ELSE 0
       IN  2 * FieldAt(p, start, w - 1) + bit

\* the reserved field and the bytes-shifted field of the header that
\* follows the tag last read by call c, as the packet holds them
ReservedField(c) == FieldAt(c.packet, c.elemStart + 7, 12)

ShiftField(c) == FieldAt(c.packet, c.elemStart + 20, 2)

IsChannelTag(t) == t \in {elemSCE, elemLFE, elemCPE}

\* C2: a call in which a decoded channel element took sample data from
\* beyond the end of the packet returns the error BitstreamOverrun.
C2_ExhaustedFails ==
  \A i \in DOMAIN calls :
    (Returned(calls[i]) /\ calls[i].exhausted) => calls[i].err = "errBitstreamOverrun"

\* C3: no call of DecodePacket ends in a panic.
C3_NeverPanics ==
  \A i \in DOMAIN calls : calls[i].pc # "panicked"

\* C4: NewDecoder fails with the bit-depth error for every Config whose
\* BitDepth is not 16, 20, 24 or 32, so that no Decoder has such a depth.
C4_UnsupportedDepthRejected ==
  /\ \A k \in DOMAIN ctor :
       ctor[k].config.BitDepth \notin SupportedDepths => ctor[k].err = "errBitDepth"
  /\ \A i \in DOMAIN decoders : decoders[i].config.BitDepth \in SupportedDepths

\* C5: a successful call returns numSamples * channels * bytesPerSample
\* bytes, numSamples being the explicit count of the last decoded element
\* with the partial-frame flag and FrameLength when there is none; the
\* result is not longer than FrameLength * channels * bytesPerSample.
C5_ResultLength ==
  \A i \in DOMAIN calls :
    Succeeded(calls[i]) =>
      LET cfg  == decoders[i].config
          unit == cfg.NumChannels * BytesPerSample(decoders[i].format.BitDepth)
          n    == IF calls[i].explicitNs = 0 - 1 THEN cfg.FrameLength ELSE calls[i].explicitNs
      IN  /\ ~calls[i].retNil
          /\ Len(calls[i].ret) = n * unit
          /\ Len(calls[i].ret) <= cfg.FrameLength * unit

\* a successful call on a packet whose element carried a sample count below
\* FrameLength
C5_Witness ==
  \E i \in DOMAIN calls :
    /\ Succeeded(calls[i])
    /\ calls[i].explicitNs >= 1
    /\ calls[i].explicitNs < decoders[i].config.FrameLength
    /\ Len(calls[i].ret) > 0

\* C6: a call that returns an error returns the nil slice.
C6_ErrorReturnsNil ==
  \A i \in DOMAIN calls : Failed(calls[i]) => (calls[i].retNil /\ calls[i].ret = <<>>)

\* a failed call that had decoded and written a channel element before
C6_Witness ==
  \E i \in DOMAIN calls :
    /\ Failed(calls[i])
    /\ calls[i].decoded >= 1
    /\ \E k \in DOMAIN calls[i].output : calls[i].output[k] # 0

\* C7: every ended call has the outcome that the same packet has on a
\* newly constructed Decoder of the same Config.
C7_NoStateAcrossPackets ==
  \A i \in DOMAIN calls :
    Ended(calls[i]) =>
      LET d == decoders[i]
      IN  outcome(calls[i])
            = outcome(DecodePacket(d, newScratch(d.config.FrameLength), calls[i].packet).c)

\* a successful call that decoded fewer samples than an earlier call left in
\* the scratch slices, the stale samples still being there afterwards
C7_Witness ==
  \E i \in DOMAIN calls :
    /\ Succeeded(calls[i])
    /\ calls[i].decoded >= 1
    /\ calls[i].explicitNs >= 0
    /\ calls[i].explicitNs < decoders[i].config.FrameLength
    /\ calls[i].sc0.mixBufferU[calls[i].explicitNs] # 0
    /\ calls[i].sc0.predictor # makeSlice(decoders[i].config.FrameLength)
    /\ heap[decoders[i].mixBufferU][calls[i].explicitNs] # 0

\* C8: under every interleaving of the steps of calls on two Decoders, an
\* ended call has the outcome that DecodePacket has when it runs alone, from
\* the scratch contents its Decoder had when the call began.
C8_IsolatedDecoders ==
  \A i \in DOMAIN calls :
    Ended(calls[i]) =>
      LET d == decoders[i]
      IN  outcome(calls[i])
            = outcome(runCall(d, newCall(d, calls[i].packet), calls[i].sc0).c)

\* a successful call during which the other Decoder's call took a step
\* between the decoding of an element and its output, both Decoders having
\* decoded samples
C8_Witness ==
  \E i, j \in DOMAIN calls :
    /\ i # j
    /\ Succeeded(calls[i])
    /\ calls[i].overlapped
    /\ calls[i].decoded >= 1
    /\ Ended(calls[j])
    /\ calls[j].decoded >= 1
    /\ calls[j].packet # calls[i].packet

\* where the call stands relative to the tag it read last
CursorAfterTag(c, n) == bitPosition(c.bits) = c.elemStart + n

\* the call handed the header behind the tag it read last to decodeSCE or
\* decodeCPE
HeaderRead(c) == IsChannelTag(c.tag) /\ c.hd.status # "none"

\* C9 as stated: an ended call whose last tag is SCE, LFE or CPE failed with
\* InvalidHeader when the reserved field behind the tag is not zero and with
\* InvalidShiftEncoding when the bytes-shifted field is 3; one whose last tag
\* is CCE or PCE failed with UnsupportedElement.
C9_ReservedValuesRejected ==
  \A i \in DOMAIN calls :
    LET c == calls[i]
    IN  (Ended(c) /\ c.tag >= 0) =>
          /\ (IsChannelTag(c.tag) /\ ReservedField(c) # 0)
               => (Failed(c) /\ c.err = "errInvalidHeader")
          /\ (IsChannelTag(c.tag) /\ ShiftField(c) = 3)
               => (Failed(c) /\ c.err = "errInvalidShift")
          /\ c.tag \in {elemCCE, elemPCE}
               => (Failed(c) /\ c.err = "errUnsupportedElement")

\* C9 amended: for a channel element that is decoded (SCE, LFE, and CPE with
\* two channels left), a non-zero reserved field fails with InvalidHeader
\* and the cursor stands behind the reserved field; with a zero reserved
\* field a bytes-shifted value 3 fails with InvalidShiftEncoding and the
\* cursor stands behind the 4-bit header; a CCE or PCE tag fails with
\* UnsupportedElement and the cursor stands behind the tag.  A CPE tag with
\* fewer than two channels left ends the frame without its header being read.
C9_ReservedValuesRejectedInOrder ==
  \A i \in DOMAIN calls :
    LET c == calls[i]
    IN  (Ended(c) /\ c.tag >= 0) =>
          /\ (HeaderRead(c) /\ ReservedField(c) # 0)
               => (Failed(c) /\ c.err = "errInvalidHeader" /\ CursorAfterTag(c, 19))
          /\ (HeaderRead(c) /\ ReservedField(c) = 0 /\ ShiftField(c) = 3)
               => (Failed(c) /\ c.err = "errInvalidShift" /\ CursorAfterTag(c, 23))
          /\ c.tag \in {elemCCE, elemPCE}
               => (Failed(c) /\ c.err = "errUnsupportedElement" /\ CursorAfterTag(c, 3))
          /\ (c.tag = elemCPE /\ ~HeaderRead(c))
               => (Succeeded(c) /\ CursorAfterTag(c, 3))
          /\ c.err \in {"errInvalidHeader", "errInvalidShift"}
               => (HeaderRead(c) /\ (ReservedField(c) # 0 \/ ShiftField(c) = 3))
          /\ c.err = "errUnsupportedElement" => c.tag \in {elemCCE, elemPCE}

\* a call that failed with InvalidShiftEncoding at a second element, after a
\* first element was decoded
C9_Witness ==
  \E i \in DOMAIN calls :
    /\ Failed(calls[i])
    /\ calls[i].err = "errInvalidShift"
    /\ ShiftField(calls[i]) = 3
    /\ calls[i].decoded >= 1
    /\ calls[i].elemStart > 0

\* the record that follows the wrappers of cookie c starts at this offset:
\* 12 more for a leading 'frma' atom, 12 more for an 'alac' atom behind it
RecordOffset(c) ==
  LET a == IF Len(c) >= 12 /\ SubSeq(c, 5, 8) = frma THEN 12 ELSE 0
  IN  IF Len(c) - a >= 12 /\ SubSeq(c, a + 5, a + 8) = alac THEN a + 12 ELSE a

\* the 32-bit word w has the bytes b3 b2 b1 b0, most significant first
HasBytes(w, b3, b2, b1, b0) == Hi16U(w) = b3 * 256 + b2 /\ Lo16(w) = b1 * 256 + b0

\* C10: every ParseConfig result is the one the record layout prescribes
\* for the bytes handed in: wrappers stripped, an error and the zero Config
\* for fewer than 24 remaining bytes or a non-zero version byte, the
\* big-endian fields otherwise.  All results for one cookie are equal, the
\* cookie keeps its bytes, and an unwrapped record of version 0 is parsed
\* from its own first byte.
C10_ParseConfig ==
  \A k \in DOMAIN parsed :
    LET in    == parsed[k].input
        cfg   == parsed[k].config
        o     == RecordOffset(in)
        at(n) == in[o + n + 1]
    IN  /\ in = cookie
        /\ parsed[k].config = parsed[1].config /\ parsed[k].err = parsed[1].err
        /\ (Len(in) - o < 24) => (parsed[k].err = "errInvalidCookie" /\ cfg = zeroConfig)
        /\ (Len(in) - o >= 24 /\ at(4) # 0)
             => (parsed[k].err = "errUnsupportedVersion" /\ cfg = zeroConfig)
        /\ (Len(in) - o >= 24 /\ at(4) = 0)
             => /\ parsed[k].err = "none"
                /\ HasBytes(cfg.FrameLength, at(0), at(1), at(2), at(3))
                /\ cfg.BitDepth = at(5) /\ cfg.PB = at(6) /\ cfg.MB = at(7) /\ cfg.KB = at(8)
                /\ cfg.NumChannels = at(9)
                /\ cfg.MaxRun = at(10) * 256 + at(11)
                /\ HasBytes(cfg.MaxFrameBytes, at(12), at(13), at(14), at(15))
                /\ HasBytes(cfg.AvgBitRate, at(16), at(17), at(18), at(19))
                /\ HasBytes(cfg.SampleRate, at(20), at(21), at(22), at(23))
        /\ (Len(in) >= 24 /\ in[5] = 0) => (o = 0 /\ parsed[k].err = "none")

\* a cookie wrapped in both atoms that was parsed twice, with success
C10_Witness ==
  /\ Len(parsed) = 2
  /\ Len(cookie) >= 48
  /\ RecordOffset(cookie) = 24
  /\ parsed[2].err = "none"
  /\ parsed[2].config.MaxRun > 255

\* the signed value of a field of w bits
SignExtend(v, w) == IF v >= Pow2(w - 1) THEN v - Pow2(w) ELSE v

\* the output bytes of one sample s at the given bit depth: little-endian,
\* 2, 3, 3 or 4 bytes, a 20-bit value shifted left by 4
PackedSample(s, depth) ==
  LET width == IF depth = 16 THEN 2 ELSE IF depth = 32 THEN 4 ELSE 3
      v     == IF depth = 20 THEN (s % 1048576) * 16 ELSE s
  IN  [k \in 1 .. width |-> (v \div Pow2(8 * (k - 1))) % 256]

\* the bytes of sample s, channel ch in the result of call c on a Decoder
\* with Config cfg
ResultSample(c, cfg, s, ch) ==
  LET bps == BytesPerSample(ToBitDepth(cfg.BitDepth).depth)
      at  == (s * cfg.NumChannels + ch) * bps
  IN  SubSeq(c.ret, at + 1, at + bps)

\* the call succeeded, and the only channel element it decoded is the
\* element read last, which has the escape flag set
EscapeDecoded(c) ==
  Succeeded(c) /\ HeaderRead(c) /\ c.decoded = 1 /\ c.hd.escapeFlag = 1

\* C11: when the element decoded by a successful call has the escape flag
\* set (whatever its bytes-shifted value), every sample of the result is the
\* packed form of the sign-extended field of BitDepth bits that the packet
\* holds for it behind the element header, the fields of a pair alternating.
C11_EscapeIsRaw ==
  \A i \in DOMAIN calls :
    LET c     == calls[i]
        cfg   == decoders[i].config
        nch   == IF c.tag = elemCPE THEN 2 ELSE 1
        start == c.elemStart + 23 + (IF c.hd.partialFrame # 0 THEN 32 ELSE 0)
        raw(s, ch) ==
          SignExtend(FieldAt(c.packet, start + (s * nch + ch) * cfg.BitDepth, cfg.BitDepth),
                     cfg.BitDepth)
    IN  (EscapeDecoded(c) /\ cfg.BitDepth \in SupportedDepths) =>
          \A s \in 0 .. (c.numSamples - 1), ch \in 0 .. (nch - 1) :
            ResultSample(c, cfg, s, ch) = PackedSample(raw(s, ch), cfg.BitDepth)

\* a + b, -a and m * a on 32-bit two's-complement values, |m| <= 128
WrapAdd(a, b) ==
  IF a >= 0 /\ b >= 0 /\ a > 2147483647 - b
    THEN ((a - 2147483647) - 1) + ((b - 2147483647) - 1)
  ELSE IF a < 0 /\ b < 0 /\ a < ((0 - 2147483647) - 1) - b
    THEN ((a + 2147483647) + 1) + ((b + 2147483647) + 1)
  ELSE a + b

WrapNeg(a) == IF a = (0 - 2147483647) - 1 THEN a ELSE 0 - a

RECURSIVE WrapMul(_, _)
WrapMul(m, a) ==
  LET twice(x) == WrapAdd(x, x)
  IN  IF m = 0 THEN 0
      ELSE IF m < 0 THEN WrapNeg(WrapMul(0 - m, a))
      ELSE IF m % 2 = 0 THEN twice(WrapMul(m \div 2, a))
      ELSE WrapAdd(twice(WrapMul(m \div 2, a)), a)

\* p >> n on a signed 32-bit value
FloorShift(p, n) == IF n >= 31 THEN (IF p < 0 THEN 0 - 1 ELSE 0) ELSE p \div Pow2(n)

\* left = U + V - ((mixRes * V) >> mixBits) and right = left - V
MixedLeft(u, v, mixBits, mixRes) ==
  WrapAdd(WrapAdd(u, v), WrapNeg(FloorShift(WrapMul(mixRes, v), mixBits)))

MixedRight(u, v, mixBits, mixRes) == WrapAdd(MixedLeft(u, v, mixBits, mixRes), WrapNeg(v))

\* the bytes of the pair's sample i that the write function stored, from
\* the bytes-shifted position on: the left channel, then the right channel
StoredPair(i) ==
  LET width == BytesPerSample(pcm.depth)
      low   == IF pcm.depth \in {24, 32} THEN pcm.bytesShifted ELSE 0
      at    == (i * pcm.numChan + pcm.chanIdx) * width
  IN  <<[k \in 1 .. (width - low) |-> pcm.out[at + low + k - 1]],
        [k \in 1 .. (width - low) |-> pcm.out[at + width + low + k - 1]]>>

\* the leading bytes of the packed samples left and right
PackedPair(left, right) ==
  LET width == BytesPerSample(pcm.depth)
      low   == IF pcm.depth \in {24, 32} THEN pcm.bytesShifted ELSE 0
  IN  <<SubSeq(PackedSample(left, pcm.depth), 1, width - low),
        SubSeq(PackedSample(right, pcm.depth), 1, width - low)>>

\* C12: mixBits is the first mix byte, mixRes the second one taken as a
\* signed byte; at each of the four bit depths the pair's samples are
\* left = U + V - ((mixRes * V) >> mixBits) and right = left - V in 32-bit
\* two's complement when mixRes # 0, and U and V themselves when mixRes = 0.
\* U = [10, 20], V = [2, 4], mixBits = 1, mixRes = 2 give left = [10, 20] and
\* right = [8, 16].
C12_StereoUnmix ==
  pcm.pc = "done" =>
    /\ ~pcm.panic
    /\ pcm.mixBits = pcm.mix[1]
    /\ pcm.mixRes = SignExtend(pcm.mix[2], 8)
    /\ \A i \in 0 .. 1 :
         LET u == pcm.mixBufferU[i]
             v == pcm.mixBufferV[i]
         IN  StoredPair(i)
               = IF pcm.mixRes # 0
                   THEN PackedPair(MixedLeft(u, v, pcm.mixBits, pcm.mixRes),
                                   MixedRight(u, v, pcm.mixBits, pcm.mixRes))
                   ELSE PackedPair(u, v)
    /\ (pcm.mixBufferU = toSlice(<<10, 20>>) /\ pcm.mixBufferV = toSlice(<<2, 4>>)
          /\ pcm.mix = <<1, 2>>)
         => (StoredPair(0) = PackedPair(10, 8) /\ StoredPair(1) = PackedPair(20, 16))

\* a pair written with a negative mixRes whose left sample wrapped around
C12_Witness ==
  /\ pcm.pc = "done"
  /\ pcm.mixRes < 0
  /\ pcm.mixBits = 1
  /\ pcm.depth = 32
  /\ pcm.bytesShifted = 0
  /\ pcm.mixBufferV[0] = 2147483647
  /\ pcm.out # makeSlice(sliceLen(pcm.out))

\* the pair of the example, written at 16 bits
C12_Example ==
  /\ pcm.pc = "done"
  /\ pcm.depth = 16
  /\ pcm.mixBufferU = toSlice(<<10, 20>>)
  /\ pcm.mix = <<1, 2>>
  /\ StoredPair(1) = <<<<20, 0>>, <<16, 0>>>>

\* the sample i of channel j (0, or 1 for the right channel of a pair) of
\* the element h of a call's elems, as its output switch was to store it at
\* the given bit depth: the unmixed value, at 24 and 32 bits above the
\* shifted-off low bytes
ElementSample(h, i, j, depth) ==
  LET width == IF depth = 16 THEN 2 ELSE IF depth = 32 THEN 4 ELSE 3
      low   == IF depth \in {24, 32} THEN h.bytesShifted ELSE 0
      u     == h.mixBufferU[i]
      v     == h.mixBufferV[i]
      val   == IF h.tag # elemCPE THEN u
               ELSE IF h.mixRes = 0 THEN (IF j = 0 THEN u ELSE v)
               ELSE IF j = 0 THEN MixedLeft(u, v, h.mixBits, h.mixRes)
               ELSE MixedRight(u, v, h.mixBits, h.mixRes)
      sb    == h.shiftBuffer[IF h.tag = elemCPE THEN 2 * i + j ELSE i]
  IN  [k \in 1 .. width |->
         IF k <= low THEN (sb \div Pow2(8 * (k - 1))) % 256
         ELSE PackedSample(val, depth)[k - low]]

\* the channels of element h
ChannelsOf(h) == IF h.tag = elemCPE THEN {h.chanIdx, h.chanIdx + 1} ELSE {h.chanIdx}

\* C13: in the result of a successful call the bytes of sample i, channel
\* ch stand at offset (i * channels + ch) * bytesPerSample; they are the
\* little-endian bytes of the sample of the element that was decoded at
\* channel ch (2, 3, 3 or 4 bytes, a 20-bit sample shifted left by 4), and
\* they are zero for a channel at which no element was decoded.  So an
\* element leaves the bytes of the other channels alone, and DSE and FIL
\* elements leave all of them alone.
C13_OutputLayout ==
  \A n \in DOMAIN calls :
    LET c   == calls[n]
        cfg == decoders[n].config
        bps == BytesPerSample(cfg.BitDepth)
    IN  (Succeeded(c) /\ cfg.BitDepth \in SupportedDepths) =>
          /\ Len(c.ret) = c.numSamples * cfg.NumChannels * bps
          /\ \A k \in DOMAIN c.elems, i \in 0 .. (c.numSamples - 1) :
               i < c.elems[k].ns =>
                 \A ch \in ChannelsOf(c.elems[k]) :
                   ResultSample(c, cfg, i, ch)
                     = ElementSample(c.elems[k], i, ch - c.elems[k].chanIdx, cfg.BitDepth)
          /\ \A ch \in 0 .. (cfg.NumChannels - 1), i \in 0 .. (c.numSamples - 1) :
               (\A k \in DOMAIN c.elems : ch \notin ChannelsOf(c.elems[k]))
                 => ResultSample(c, cfg, i, ch) = [b \in 1 .. bps |-> 0]

\* a successful call on a frame of two channels that decoded two single
\* channel elements, the samples of both being in the result
C13_Witness ==
  \E n \in DOMAIN calls :
    /\ Succeeded(calls[n])
    /\ decoders[n].config.NumChannels = 2
    /\ Len(calls[n].elems) = 2
    /\ calls[n].elems[2].chanIdx = 1
    /\ ResultSample(calls[n], decoders[n].config, 0, 0) # <<0, 0>>
    /\ ResultSample(calls[n], decoders[n].config, 0, 1) # <<0, 0>>
    /\ ResultSample(calls[n], decoders[n].config, 0, 0)
         # ResultSample(calls[n], decoders[n].config, 0, 1)

\* a successful call that left the second channel of the frame undecoded
C13_UnfilledChannel ==
  \E n \in DOMAIN calls :
    /\ Succeeded(calls[n])
    /\ decoders[n].config.NumChannels = 2
    /\ Len(calls[n].elems) = 1
    /\ calls[n].elems[1].tag = elemSCE
    /\ ResultSample(calls[n], decoders[n].config, 0, 0) # <<0, 0>>

\* call c took a step of its element loop and stands at c2 afterwards
Stepped(c, c2) == c.pc \in {"loop", "write"} /\ (c2.pc # c.pc \/ c2.bits # c.bits)

\* the step from c to c2 read no tag and decoded nothing
NothingRead(c, c2) ==
  /\ c2.bits = c.bits
  /\ c2.tag = c.tag
  /\ c2.chanIdx = c.chanIdx
  /\ c2.decoded = c.decoded

\* the step from c to c2 read the tag at the cursor of c
TagRead(c, c2) ==
  /\ c2.tag = FieldAt(c.packet, bitPosition(c.bits), 3)
  /\ c2.elemStart = bitPosition(c.bits)
  /\ c2.chanIdx = c.chanIdx

\* what one step of the element loop does, in a frame of numChan channels:
\* at the head of the loop the end-of-packet test comes first; a tag is
\* read only when it fails, and the step goes on by the tag; after a
\* channel element was decoded the channel index advances and the loop is
\* left when it reached numChan
DispatchStep(c, c2, numChan) ==
  /\ (c.pc = "loop" /\ c.bits.pos >= Len(c.packet))
       => (Failed(c2) /\ c2.err = "errBitstreamOverrun" /\ NothingRead(c, c2))
  /\ (c.pc = "loop" /\ c.bits.pos < Len(c.packet) /\ c2.pc # "panicked")
       => /\ TagRead(c, c2)
          /\ c2.tag \in {elemSCE, elemLFE}
               => (c2.pc = "write" \/ Failed(c2))
          /\ (c2.tag = elemCPE /\ c.chanIdx + 2 <= numChan)
               => (c2.pc = "write" \/ Failed(c2))
          /\ (c2.tag = elemCPE /\ c.chanIdx + 2 > numChan)
               => /\ Succeeded(c2)
                  /\ bitPosition(c2.bits) = c2.elemStart + 3
                  /\ c2.output = c.output
                  /\ c2.decoded = c.decoded
          /\ c2.tag \in {elemCCE, elemPCE}
               => (Failed(c2) /\ c2.err = "errUnsupportedElement")
          /\ c2.tag \in {elemDSE, elemFIL}
               => /\ c2.pc = "loop" \/ Failed(c2)
                  /\ c2.output = c.output
                  /\ c2.decoded = c.decoded
          /\ c2.tag = elemEND => (Succeeded(c2) /\ c2.output = c.output)
  /\ (c.pc = "write" /\ c2.pc # "panicked")
       => /\ c2.chanIdx = c.chanIdx + (IF c.tag = elemCPE THEN 2 ELSE 1)
          /\ c2.decoded = c.decoded + 1
          /\ c2.bits = c.bits /\ c2.tag = c.tag
          /\ IF c2.chanIdx >= numChan THEN Succeeded(c2) ELSE c2.pc = "loop"
  /\ c2.chanIdx <= numChan
  /\ c2.pc = "loop" => c2.chanIdx < numChan

\* C14: every step of the element loop of DecodePacket is a DispatchStep:
\* the end-of-packet test precedes each tag read and ends the call with
\* BitstreamOverrun; SCE and LFE advance the channel index by 1, CPE by 2,
\* DSE and FIL by 0; the call succeeds exactly when the channel index
\* reached the channel count after an element, at an END tag, or at a CPE
\* tag with fewer than two channels left, of which nothing is decoded.  The
\* channel index never exceeds the channel count, and the loop is not
\* entered again once it reached it.
C14_DispatchOrder ==
  [][\A i \in DOMAIN calls :
       Stepped(calls[i], calls'[i])
         => DispatchStep(calls[i], calls'[i], decoders[i].config.NumChannels)]_vars

\* a call on a frame of two channels that decoded a single channel element,
\* skipped nothing, and ended with success at a CPE tag of which it read no
\* more than the tag
C14_Witness ==
  \E i \in DOMAIN calls :
    /\ Succeeded(calls[i])
    /\ calls[i].tag = elemCPE
    /\ ~HeaderRead(calls[i])
    /\ calls[i].chanIdx = 1
    /\ decoders[i].config.NumChannels = 2
    /\ calls[i].decoded = 1

\* ---- the entropy decoder ------------------------------------------------

\* the last iteration of the loop decoded a sample and updated the mean
SampleDecoded ==
  /\ ag.pc # "none"
  /\ ag.steps > 0
  /\ ag.st.count > ag.prev.count

\* an iteration of the loop was run from the variables prev
Iterated == ag.pc # "none" /\ ag.steps > 0

\* the position of the loop's cursor in the packet: input is buf[pos:] and
\* bitPos counts from the start of input
AbsoluteBit(st) == ag.bitBuf.pos * 8 + st.bitPos

\* C15: an iteration that starts with the cursor at or beyond the declared
\* length of the packet (absolute bit position >= 8 * size) ends dynDecomp
\* with BitstreamOverrun, wherever in the packet the cursor stood at the call,
\* and no iteration indexes a byte beyond the 4 padding bytes
C15_LimitIsAbsolute ==
  Iterated =>
    /\ AbsoluteBit(ag.prev) >= 8 * ag.bitBuf.size => ag.st.status = "errBitstreamOverrun"
    /\ ag.st.status # "panic"

\* C17: after every per-sample update of the running mean the accumulator the
\* next sample is decoded with does not exceed 0xFFFF, whatever the decoded
\* value n was
C17_MeanBounded ==
  SampleDecoded => (ag.st.meanAccum >= 0 /\ ag.st.meanAccum <= 65535)

\* the last iteration of the loop decoded a zero run behind its sample
ZeroRunDecoded == Iterated /\ ag.st.status = "run" /\ ag.st.run >= 0

\* C16: a zero run of length n emits n zero residuals behind the sample,
\* resets the running mean to zero, and sets the carry for the next sample
\* unless n is at least the configured maximum run length (Config.MaxRun,
\* the maxrun of the parameters), which cancels the carry
C16_ZeroRun ==
  ZeroRunDecoded =>
    /\ ag.st.count = ag.prev.count + 1 + ag.st.run
    /\ \A i \in (ag.prev.count + 1) .. (ag.st.count - 1) : ag.st.predCoefs[i] = 0
    /\ ag.st.meanAccum = 0
    /\ ag.st.zmode = (IF ag.st.run >= ag.params.maxrun THEN 0 ELSE 1)

\* predCoefs holds what it held before the call from index numSamples on
NoneBeyond == \A i \in ag.numSamples .. (ag.predLen - 1) : ag.st.predCoefs[i] = Stale

\* C18: when dynDecomp succeeds it has written exactly numSamples residuals,
\* at the indices 0 .. numSamples - 1 and none beyond, and has advanced the
\* main cursor by exactly the bits its loop consumed; when a zero run would
\* pass numSamples it returns SampleCountOverrun, having written nothing from
\* index numSamples on and having left the main cursor where it was
C18_Postcondition ==
  ag.pc = "returned" =>
    /\ ag.err = "ok" =>
         /\ ag.st.count = ag.numSamples
         /\ \A i \in 0 .. (ag.numSamples - 1) : ag.st.predCoefs[i] # Stale
         /\ NoneBeyond
         /\ bitPosition(ag.b) = bitPosition(ag.bitBuf) + (ag.st.bitPos - ag.bitBuf.bitIdx)
         /\ ag.st.bitPos > ag.bitBuf.bitIdx
    /\ ag.err = "errSampleOverrun" =>
         /\ ag.st.run >= 0
         /\ ag.st.count + ag.st.run > ag.numSamples
         /\ NoneBeyond
         /\ ag.b = ag.bitBuf

\* three samples are decoded from codewords of 4, 3 and 3 bits that stand 5
\* bits into the packet: the cursor ends at bit 15
C18_Witness ==
  /\ ag.pc = "returned"
  /\ ag.err = "ok"
  /\ ag.numSamples = 3
  /\ ag.st.predCoefs = (0 :> 0 - 2) @@ (1 :> 1) @@ (2 :> 1) @@ (3 :> Stale) @@ (4 :> Stale)
  /\ bitPosition(ag.bitBuf) = 5
  /\ bitPosition(ag.b) = 15

\* the number of leading zero bits of a 32-bit word, counted bit by bit
Clz32(w) ==
  IF w < 0 THEN 0 ELSE 32 - Cardinality({b \in 0 .. 30 : Pow2(b) <= w})

\* an unsigned 32-bit word shifted right by 9
UShr9(w) == IF w >= 0 THEN w \div 512 ELSE ((w + 2147483647) + 1) \div 512 + 4194304

\* C19: a sample is decoded with k = min(31 - clz32((mean >> 9) + 3), kb) and
\* m = 2^k - 1, where mean is the running mean before the sample; the
\* leading-zero helper returns 32 for 0, and otherwise the number of leading
\* zero bits of the word (0 for a negative word)
C19_GolombParameters ==
  /\ SampleDecoded =>
       /\ ag.st.k = (IF 31 - Clz32(UShr9(ag.prev.meanAccum) + 3) < ag.params.kb
                       THEN 31 - Clz32(UShr9(ag.prev.meanAccum) + 3)
                       ELSE ag.params.kb)
       /\ golombM(ag.st.k) = Pow2(ag.st.k) - 1
  /\ (ag.pc # "none" /\ ag.leadOf # <<>>) =>
       /\ ag.leadOf[2] = Clz32(ag.leadOf[1])
       /\ ag.leadOf[1] = 0 => ag.leadOf[2] = 32
       /\ ag.leadOf[1] < 0 => ag.leadOf[2] = 0

\* the mean 80010 asks for k = 7 and kb = 4 caps it; lead was applied to 0
C19_Witness ==
  /\ SampleDecoded
  /\ ag.prev.meanAccum = 80010
  /\ ag.params.kb = 4
  /\ ag.st.k = 4
  /\ ag.st.n = 19
  /\ ag.leadOf = <<0, 32, 1>>

\* the iteration that prev resulted from ended a zero run shorter than the
\* length at which dynDecomp cancels the carry
AfterShortRun == ag.prev.run >= 0 /\ ag.prev.run < maxZeroRun

\* the residual of the unsigned 32-bit word n and the carry c is the zigzag
\* decoding of v = n + c: (v + 1) >> 1, negated when v is odd; v = 2^32 has
\* no residual of 32 bits
ZigZagOf(n, c, residual) ==
  LET r    == (n % 65536) + c + 1
      half == ((n - (n % 65536)) \div 65536 % 65536) * 32768
  IN  IF half = 65535 * 32768 /\ r \div 2 = 32768
        THEN r % 2 = 0 /\ residual = (0 - 2147483647) - 1
        ELSE residual = (IF r % 2 = 0 THEN 0 - (half + r \div 2) ELSE half + r \div 2)

\* C20: the residual stored for a sample is the zigzag decoding of n + carry,
\* n being the decoded value; the carry is 1 exactly when the previous
\* iteration ended a zero run shorter than the cancelling length; hence the
\* residual that directly follows such a zero run is never zero; and the
\* carry is added to n in the update of the mean as well
C20_CarryAndSign ==
  SampleDecoded =>
    /\ ag.st.carry = (IF AfterShortRun THEN 1 ELSE 0)
    /\ ZigZagOf(ag.st.n, ag.st.carry, ag.st.predCoefs[ag.prev.count])
    /\ AfterShortRun => ag.st.predCoefs[ag.prev.count] # 0
    /\ (ag.st.run = 0 - 1 /\ ag.st.n >= 0 /\ ag.st.n <= nMaxMeanClamp) =>
         ag.st.meanAccum = ag.params.pb * (ag.st.n + ag.st.carry) + ag.prev.meanAccum
                             - ((ag.params.pb * ag.prev.meanAccum) \div 512)

\* ---- the predictor ----------------------------------------------------------

\* the call run sample by sample has produced all its samples
SamplesDone ==
  /\ pr.pc = "called"
  /\ pr.numActive \notin {4, 8}
  /\ ~samplesLeft(pr.j, pr.num, pr.numActive)

\* run sample by sample, unpcBlock leaves the memory the call as a whole leaves
StepsAgree ==
  (pr.pc = "called" /\ SamplesDone /\ pr.sep # NoResult) => pr.mem = pr.sep

\* a sample was produced in the call that is run sample by sample: its index
Produced == pr.pc = "called" /\ pr.j > 0

LastIndex == pr.j - 1

\* the phase that produced the sample of index j
PhaseOf(j) == pr.phase[j + 1]

\* v truncated to a signed value of w < 32 bits
TruncTo(v, w) == SignExtend(v % Pow2(w), w)

\* the sample and its predecessor are a first-order delta step
IsDelta(j) ==
  pr.mem.out[j] = TruncTo(WrapAdd(pr.before.pc1[j], pr.before.out[j - 1]), pr.chanBits)

\* sum of coef[k] * (out[j-1-k] - top) from coefficient k on, in 32 bits
RECURSIVE LinearSum(_, _, _)
LinearSum(j, top, k) ==
  IF k >= pr.numActive THEN 0
  ELSE WrapAdd(WrapMul(pr.before.coefs[k], WrapAdd(pr.before.out[j - 1 - k], WrapNeg(top))),
               LinearSum(j, top, k + 1))

\* the sample is the residual plus top plus the rounded, shifted linear
\* prediction over the numActive samples before it, top = out[j-numActive-1]
IsPredicted(j) ==
  LET top     == pr.before.out[j - pr.numActive - 1]
      denHalf == IF pr.denShift = 0 THEN 0 ELSE Pow2(pr.denShift - 1)
      pred    == FloorShift(WrapAdd(LinearSum(j, top, 0), denHalf), pr.denShift)
  IN  pr.mem.out[j] = TruncTo(WrapAdd(WrapAdd(pr.before.pc1[j], top), pred), pr.chanBits)

\* C21 as stated: for 1 <= numActive <= 30 the warm-up produces the samples
\* of index below numActive as a chained first-order delta, truncated to the
\* channel bit width, and every sample of index >= numActive is produced by
\* linear prediction with coefficient adaptation
C21_WarmUpFirstNumActive ==
  (Produced /\ pr.numActive \in 1 .. 30) =>
    /\ (LastIndex >= 1 /\ LastIndex < pr.numActive) =>
         PhaseOf(LastIndex) = "warmup" /\ IsDelta(LastIndex)
    /\ LastIndex >= pr.numActive => PhaseOf(LastIndex) = "predict"

\* C21, amended: the warm-up produces the numActive samples of index
\* 1 .. numActive as a chained first-order delta that starts from sample 0,
\* truncated to the channel bit width, and leaves the coefficients alone, and
\* every sample of index > numActive is produced by linear prediction from
\* the numActive samples before it
C21_WarmUp ==
  (Produced /\ pr.numActive \in 1 .. 30) =>
    /\ LastIndex = 0 => PhaseOf(0) = "first"
    /\ (LastIndex >= 1 /\ LastIndex <= pr.numActive) =>
         /\ PhaseOf(LastIndex) = "warmup"
         /\ IsDelta(LastIndex)
         /\ pr.mem.coefs = pr.before.coefs
    /\ LastIndex > pr.numActive =>
         /\ PhaseOf(LastIndex) = "predict"
         /\ IsPredicted(LastIndex)
    /\ StepsAgree

\* with two coefficients the samples 1 and 2 are warm-up samples, and sample
\* 3 is predicted: it differs from the delta of its residual
C21_Witness ==
  /\ Produced
  /\ pr.numActive = 2
  /\ pr.phase = <<"first", "warmup", "warmup", "predict">>
  /\ IsPredicted(3)
  /\ ~IsDelta(3)
  /\ pr.mem.coefs # pr.before.coefs

\* the last sample was produced by linear prediction
Predicted == Produced /\ PhaseOf(LastIndex) = "predict"

Sgn(x) == IF x > 0 THEN 1 ELSE IF x < 0 THEN 0 - 1 ELSE 0

\* v as a signed 16-bit value
Wrap16(v) == SignExtend(v % 65536, 16)

\* the raw residual of the last sample, and for coefficient k the difference
\* dd = top - out[j-1-k] and the sign the walk applies: sgn of dd for a
\* positive residual, its opposite for a negative one
RawResidual == pr.before.pc1[LastIndex]

Difference(k) ==
  WrapAdd(pr.before.out[LastIndex - pr.numActive - 1],
          WrapNeg(pr.before.out[LastIndex - 1 - k]))

AppliedSign(k) == Sgn(RawResidual) * Sgn(Difference(k))

\* the running adjusted residual after coefficient k: the raw residual less
\* (numActive - i) * ((sgn * dd) >> denShift) for i = numActive-1 down to k
RECURSIVE RunningResidual(_)
RunningResidual(k) ==
  WrapAdd(IF k = pr.numActive - 1 THEN RawResidual ELSE RunningResidual(k + 1),
          WrapNeg(WrapMul(pr.numActive - k,
                          FloorShift(WrapMul(AppliedSign(k), Difference(k)), pr.denShift))))

\* the walk stops after coefficient k
StopsAfter(k) ==
  \/ RawResidual > 0 /\ RunningResidual(k) <= 0
  \/ RawResidual < 0 /\ RunningResidual(k) >= 0

\* coefficient k is visited: the walk did not stop after a higher one
Visited(k) == \A i \in (k + 1) .. (pr.numActive - 1) : ~StopsAfter(i)

\* C22: for a predicted sample with zero raw residual no coefficient changes;
\* otherwise the coefficients are visited from index numActive-1 down to 0,
\* a visited coefficient changes once, by the applied sign (by at most 1, as
\* a signed 16-bit value), the running adjusted residual is reduced by
\* (numActive-k) * ((sgn*dd) >> denShift) after coefficient k, the walk stops
\* after the first coefficient that leaves the running value <= 0 (positive
\* residual) or >= 0 (negative residual), and the coefficients below it,
\* coefficient 0 included, are left unchanged
C22_AdaptationOrder ==
  Predicted =>
    \A k \in 0 .. (pr.numActive - 1) :
      pr.mem.coefs[k] =
        IF RawResidual # 0 /\ Visited(k)
          THEN Wrap16(pr.before.coefs[k] - AppliedSign(k))
          ELSE pr.before.coefs[k]

\* a walk over three coefficients that changed the highest one and stopped
\* before coefficient 0, whose difference is not zero
C22_Witness ==
  /\ Predicted
  /\ pr.numActive = 3
  /\ RawResidual > 0
  /\ pr.mem.coefs[2] # pr.before.coefs[2]
  /\ ~Visited(0)
  /\ Difference(0) # 0
  /\ pr.mem.coefs[0] = pr.before.coefs[0]

\* both the routine unpcBlock chooses for 4 or 8 coefficients and the
\* general routine were run on the arguments
BothRoutines == pr.pc = "called" /\ pr.sep # NoResult /\ pr.gen # NoResult

\* C23: for numActive = 4 and numActive = 8 the routines unpcBlock4 and
\* unpcBlock8 produce the output samples and leave the coefficients that
\* unpcBlockGeneral produces and leaves on the same residuals, chanBits,
\* denShift and signed 16-bit coefficients, also when an adapted coefficient
\* passes the limits of a signed 16-bit value
C23_FastPathEquivalence ==
  BothRoutines => (pr.sep.out = pr.gen.out /\ pr.sep.coefs = pr.gen.coefs)

\* unpcBlock was called with separate slices and with one slice for both
BothWays == pr.pc = "called" /\ pr.sep # NoResult /\ pr.inp # NoResult

\* C24: called with the residual slice as output slice too, unpcBlock gives
\* the output samples and the coefficients it gives when called with two
\* separate slices holding the same residuals, for every numActive; so it
\* does for numActive = 31, the pass that is run in place
C24_Aliasing ==
  BothWays =>
    /\ \A i \in 0 .. (pr.num - 1) : pr.inp.out[i] = pr.sep.out[i]
    /\ pr.inp.coefs = pr.sep.coefs
    /\ pr.inp.panic = pr.sep.panic

\* the delta pass over twelve residuals was run both ways; in place it has
\* overwritten the residuals
C24_Witness ==
  /\ BothWays
  /\ pr.numActive = numActiveDelta
  /\ pr.num = sliceLen(pr.pc1)
  /\ pr.inp.pc1 = pr.inp.out
  /\ pr.inp.pc1 # pr.pc1
  /\ pr.sep.pc1 = pr.pc1
  /\ pr.sep.out = pr.inp.out

\* unpcBlock was called with numActive = 31 and separate slices
DeltaDecoded == pr.pc = "called" /\ pr.numActive = numActiveDelta /\ pr.sep # NoResult

Operand == IF cur.op.on = "snapshot" THEN cur.snapBefore ELSE cur.before

Operated == IF cur.op.on = "snapshot" THEN cur.snap ELSE cur.bits

Completed == cur.pc = "cursor" /\ ~cur.op.panic

\* cursor b1 stands exactly n bits after cursor b0
BitsAfter(b0, b1, n) ==
  /\ b1.pos = b0.pos + ((b0.bitIdx + n) \div 8)
  /\ b1.bitIdx = (b0.bitIdx + n) % 8

\* the last operation was the extraction name with numBits up to most
Extracted(name, most) == Completed /\ cur.op.name = name /\ cur.op.n <= most

\* the operation moved the cursor n bits forward and returned the n bits it
\* passed over, right-aligned
NextBitsReturned ==
  /\ BitsAfter(Operand, Operated, cur.op.n)
  /\ cur.op.val = FieldAt(cur.data, Operand.pos * 8 + Operand.bitIdx, cur.op.n)

\* C29: after every operation of a bit cursor that returned, the bit offset
\* is in 0..7 and the byte position has not decreased; read(n) for n <= 16,
\* readSmall(n) for n <= 8 and readOne move the cursor forward by exactly n
\* (resp. 1) bits and return the bits passed over right-aligned, whatever
\* the bit offset; byteAlign leaves an aligned cursor where it is and moves
\* any other to the next byte boundary; pastEnd is true exactly when the
\* byte position is at or beyond the length of the bytes given.
C29_CursorInvariants ==
  cur # NoCursor =>
    /\ cur.bits.bitIdx \in 0 .. 7
    /\ cur.snap # NoCursor => cur.snap.bitIdx \in 0 .. 7
    /\ cur.op.name # "newBitBuffer" => Operated.pos >= Operand.pos
    /\ Extracted("read", 16) \/ Extracted("readSmall", 8) \/ Extracted("readOne", 1)
          => NextBitsReturned
    /\ Completed /\ cur.op.name = "byteAlign"
          => IF Operand.bitIdx = 0 THEN Operated = Operand
             ELSE Operated.pos = Operand.pos + 1 /\ Operated.bitIdx = 0
    /\ pastEnd(cur.bits) <=> cur.bits.pos >= Len(cur.data)

\* a read of 16 bits from bit offset 7 returned set bits of the data, and
\* the cursor is not past the end
C29_Witness ==
  /\ Extracted("read", 16)
  /\ Operand.bitIdx = 7
  /\ Operand.pos = 0
  /\ cur.op.val = 59008
  /\ ~pastEnd(cur.bits)

\* ---- the shift bits of a compressed element -----------------------------------

\* call c has decoded a compressed channel element with bytesShifted # 0 and
\* at least one sample into the scratch slices, and has not written it yet
ShiftedPending(c) ==
  /\ c.pc = "write"
  /\ c.hd.escapeFlag = 0
  /\ c.pend.bytesShifted # 0
  /\ U32ToInt(c.pend.ns) > 0

\* the number of shift fields of the element and the width of one
FieldCount(c) == U32ToInt(c.pend.ns) * (IF c.tag = elemCPE THEN 2 ELSE 1)

FieldWidth(c) == c.pend.bytesShifted * 8

\* the bits of the predictor parameters that begin at bit position at of
\* packet p: mode, denShift, pbFactor, the number of coefficients and the
\* coefficients
ParamBits(p, at) == 16 + 16 * FieldAt(p, at + 11, 5)

\* the bit position that follows the mix bytes and the predictor parameters
\* of the element
ParamsEnd(c) ==
  LET paramsU == bitPosition(c.hd.b) + 16
      paramsV == paramsU + ParamBits(c.packet, paramsU)
  IN  IF c.tag = elemCPE THEN paramsV + ParamBits(c.packet, paramsV) ELSE paramsV

\* the shift buffer sb holds the fields of the packet from bit position from on
FieldsReadFrom(c, sb, from) ==
  \A i \in 0 .. FieldCount(c) - 1 :
    sb[i] = FieldAt(c.packet, from + i * FieldWidth(c), FieldWidth(c))

ShiftBufferOf(i) == scratchOf(heap, decoders[i]).shiftBuffer

\* C27 as stated: the shift fields a compressed element with bytesShifted # 0
\* reads through the snapshot lie in the packet after the entropy-coded
\* payload of the element, that is at or after the position where the
\* primary cursor stands when the element is decoded.
C27_ShiftBitsAfterPayload ==
  \A i \in DOMAIN calls :
    ShiftedPending(calls[i]) =>
      \E from \in bitPosition(calls[i].bits) .. Len(calls[i].packet) * 8 :
        FieldsReadFrom(calls[i], ShiftBufferOf(i), from)

\* C27, amended: the shift fields lie between the predictor parameters and
\* the entropy-coded payload: the snapshot reads them from the position
\* that follows the parameters on, and the payload the primary cursor
\* decodes begins after the last of them.
C27_ShiftBitsBeforePayload ==
  \A i \in DOMAIN calls :
    ShiftedPending(calls[i]) =>
      /\ FieldsReadFrom(calls[i], ShiftBufferOf(i), ParamsEnd(calls[i]))
      /\ ParamsEnd(calls[i]) + FieldCount(calls[i]) * FieldWidth(calls[i])
            < bitPosition(calls[i].bits)

\* an element of a pair with two samples and one shifted byte is decoded:
\* four fields with set bits were read
C27_Witness ==
  \E i \in DOMAIN calls :
    /\ ShiftedPending(calls[i])
    /\ calls[i].tag = elemCPE
    /\ FieldCount(calls[i]) = 4
    /\ \A k \in 0 .. 3 : ShiftBufferOf(i)[k] # 0

\* C26: copy returns a cursor with the byte position and the bit offset of
\* the primary cursor over the same bytes and leaves the primary where it
\* is; after that a read on the snapshot leaves the byte position and the
\* bit offset of the primary unchanged, and a read, an advance or a
\* byteAlign on the primary leaves those of the snapshot unchanged: the
\* primary stands where its own operations left it.
C26_SnapshotIndependence ==
  cur # NoCursor =>
    /\ cur.op.name = "copy" =>
          /\ cur.snap.pos = cur.before.pos
          /\ cur.snap.bitIdx = cur.before.bitIdx
          /\ cur.bits = cur.before
    /\ cur.snap # NoCursor => cur.snap.buf = cur.bits.buf /\ cur.snap.size = cur.bits.size
    /\ cur.op.on = "snapshot" =>
          cur.bits.pos = cur.before.pos /\ cur.bits.bitIdx = cur.before.bitIdx
    /\ cur.op.on = "primary" /\ cur.op.name # "copy" /\ cur.snapBefore # NoCursor =>
          cur.snap.pos = cur.snapBefore.pos /\ cur.snap.bitIdx = cur.snapBefore.bitIdx

\* the snapshot, taken at a bit offset other than 0, has read bits that are
\* set while the primary cursor stands further on, at another bit offset
C26_Witness ==
  /\ cur # NoCursor
  /\ Completed
  /\ cur.op.on = "snapshot"
  /\ cur.op.val # 0
  /\ cur.snapBefore.bitIdx # 0
  /\ cur.bits.pos > cur.snap.pos
  /\ cur.bits.bitIdx # cur.snap.bitIdx

\* ---- the shift bits in the output ---------------------------------------------

\* call c has just written the channel element whose header it holds: the
\* element is the last of c.elems
JustWritten(c) ==
  /\ c.pc \in {"loop", "returned"}
  /\ c.err = "none"
  /\ HeaderRead(c)
  /\ c.hd.status = "ok"
  /\ Len(c.elems) > 0

LastElement(c) == c.elems[Len(c.elems)]

\* the bytes of sample i, channel ch in the output buffer of call c
OutputSample(c, cfg, i, ch) ==
  LET bps == BytesPerSample(cfg.BitDepth)
      at  == (i * cfg.NumChannels + ch) * bps
  IN  [k \in 1 .. bps |-> c.output[at + k - 1]]

\* the number the bytes from .. to of a little-endian sample hold
RECURSIVE LittleEndian(_, _, _)
LittleEndian(bytes, from, to) ==
  IF from > to THEN 0 ELSE bytes[from] + 256 * LittleEndian(bytes, from + 1, to)

\* the reconstructed value of sample i of channel j (0, or 1 for the right
\* channel of a pair) of element h: the predicted sample, unmixed in a pair
Reconstructed(h, i, j) ==
  LET u == h.mixBufferU[i]
      v == h.mixBufferV[i]
  IN  IF h.tag # elemCPE THEN u
      ELSE IF h.mixRes = 0 THEN (IF j = 0 THEN u ELSE v)
      ELSE IF j = 0 THEN MixedLeft(u, v, h.mixBits, h.mixRes)
      ELSE MixedRight(u, v, h.mixBits, h.mixRes)

\* the shift field of the packet for sample i of channel j of the element
\* call c has read: the fields are s bytes wide and follow the predictor
\* parameters, one per sample in a single channel element, two per sample
\* in a pair
TransmittedField(c, i, j, s) ==
  FieldAt(c.packet, ParamsEnd(c) + (IF c.tag = elemCPE THEN 2 * i + j ELSE i) * 8 * s, 8 * s)

\* the bytes stored are value << 8 * s | field, cut to the sample's width
Reinjected(bytes, value, field, s) ==
  /\ LittleEndian(bytes, 1, s) = field
  /\ LittleEndian(bytes, s + 1, Len(bytes)) = value % Pow2(8 * (Len(bytes) - s))

\* C28: at bit depth 24 or 32 every output sample of a compressed element
\* with bytesShifted = s in {1, 2} is (reconstructed value << 8 * s) OR the
\* shift field the packet holds for that sample and channel, the fields
\* standing one per sample for a single channel and interleaved left, right
\* per sample for a pair; with s = 0 or in an escape element the output
\* sample is the reconstructed value itself.
C28_ShiftBitsReinjected ==
  \A n \in DOMAIN calls :
    LET c   == calls[n]
        cfg == decoders[n].config
        h   == LastElement(c)
        s   == c.hd.bytesShifted
    IN  (JustWritten(c) /\ cfg.BitDepth \in {24, 32}) =>
          \A i \in 0 .. (U32ToInt(h.ns) - 1), j \in 0 .. (IF c.tag = elemCPE THEN 1 ELSE 0) :
            IF c.hd.escapeFlag = 0 /\ s # 0
              THEN Reinjected(OutputSample(c, cfg, i, h.chanIdx + j), Reconstructed(h, i, j),
                              TransmittedField(c, i, j, s), s)
              ELSE OutputSample(c, cfg, i, h.chanIdx + j)
                     = PackedSample(Reconstructed(h, i, j), cfg.BitDepth)

\* a single channel element at 24 bits with one shifted byte and two
\* samples is written: the two fields differ and the samples are not zero
C28_Witness ==
  \E n \in DOMAIN calls :
    /\ JustWritten(calls[n])
    /\ decoders[n].config.BitDepth = 24
    /\ calls[n].tag = elemSCE
    /\ calls[n].hd.escapeFlag = 0
    /\ calls[n].hd.bytesShifted = 1
    /\ U32ToInt(LastElement(calls[n]).ns) = 2
    /\ TransmittedField(calls[n], 0, 0, 1) # TransmittedField(calls[n], 1, 0, 1)
    /\ LastElement(calls[n]).mixBufferU[1] # 0

\* ---- termination ----------------------------------------------------------------

\* the call of DecodePacket on the Decoder has ended
CallEnded == Len(calls) = 1 /\ calls[1].pc \in {"returned", "panicked"}

\* what holds at the head of the element loop and between the iterations
\* of the loop of dynDecomp
LoopHeads ==
  /\ \A n \in DOMAIN calls :
       calls[n].pc = "loop" =>
         /\ calls[n].chanIdx < decoders[n].config.NumChannels
         /\ calls[n].tag # elemEND
         /\ calls[n].tag \in {elemDSE, elemFIL} => ~pastEnd(calls[n].bits)
  /\ ag # NoDecomp =>
       /\ ag.st.count <= ag.numSamples
       /\ (ag.steps > 0 /\ ag.st.status = "run") =>
            /\ ag.st.count > ag.prev.count
            /\ ag.st.run >= 0 => ag.st.count = ag.prev.count + 1 + ag.st.run

\* an iteration of the element loop of call n from the state before to the
\* state after it: past the end of the packet it returns BitstreamOverrun,
\* and when it does not return the cursor stands at least 3 bits further
IterationOf(before, after) ==
  /\ pastEnd(before.bits) => after.pc = "returned" /\ after.err = "errBitstreamOverrun"
  /\ after.pc \in {"loop", "write"} =>
       bitPosition(after.bits) >= bitPosition(before.bits) + 3

Iterations ==
  \A n \in DOMAIN calls :
    (n \in DOMAIN calls' /\ calls[n].pc = "loop" /\ calls'[n] # calls[n])
      => IterationOf(calls[n], calls'[n])

\* a call in its loop is never held up: its next iteration leaves it in
\* another state
NeverStuck ==
  \A n \in DOMAIN calls :
    calls[n].pc \in {"loop", "write"}
      => callStep(decoders[n], calls[n], scratchOf(heap, decoders[n])).c # calls[n]

\* C30: a call of DecodePacket ends on every packet: an iteration of the
\* element loop returns or leaves the cursor at least the 3 tag bits
\* further, a DSE or FIL skip included; the loop is left when the cursor is
\* at or past the end of the packet, when the channel count is reached and
\* when END is read; an iteration of the sample loop of dynDecomp stores at
\* least one sample, a zero run as many as its length, never more than
\* numSamples in all, and the call of dynDecomp ends.
C30_Termination ==
  /\ []LoopHeads
  /\ []NeverStuck
  /\ [][Iterations]_vars
  /\ CallRunning ~> CallEnded
  /\ (ag # NoDecomp /\ ag.pc = "loop") ~> (ag # NoDecomp /\ ag.pc = "returned")

\* a call that skipped a FIL element and decoded a channel element after it
\* has returned a result
C30_Witness ==
  /\ CallEnded
  /\ Succeeded(calls[1])
  /\ calls[1].decoded = 1
  /\ calls[1].elemStart > 0

====
